---------------------------- MODULE Spec2Model ----------------------------
(***************************************************************************)
(* A model of zarrs_conventions: the convention registry (registry.rs),    *)
(* the representation protocol (traits.rs, lib.rs) and the attributes      *)
(* parser (attributes.rs).                                                 *)
(*                                                                         *)
(* Spec      the registry: register calls of several threads under the     *)
(*           RwLock, and the readers contains / get / conventions.         *)
(* PoisonSpec  the registry where a thread may panic while it holds the    *)
(*           write guard, which poisons the RwLock.                        *)
(* AttrSpec  the representation protocol and the parser over a bounded     *)
(*           family of attribute maps.                                     *)
(* EncSpec   to_attributes_nested / to_attributes_prefixed on an attribute *)
(*           map, followed by the decode operations.                       *)
(* ConvSpec  ConventionBuilder, Convention and its reduction to one        *)
(*           ConventionId.                                                 *)
(* BldSpec   AttributesBuilder, and AttributesParser on the map it built.  *)
(***************************************************************************)
EXTENDS Integers, Sequences, FiniteSets, TLC

VARIABLES
    uuid_reg,     \* ConventionRegistryInner.uuid_reg   : uuid |-> definition
    schema_reg,   \* ConventionRegistryInner.schema_reg : schema url |-> definition
    spec_reg,     \* ConventionRegistryInner.spec_reg   : spec url |-> definition
    writer,       \* the thread holding the RwLock's write guard, 0 when none
    pc,           \* per thread: where it is inside register
    arg,          \* per thread: T::DEFINITION of the register call in progress
    log,          \* history: the register calls in lock order, with their results
    rd,           \* the value most recently returned by a reader
    poisoned,     \* the RwLock's poison flag
    attributes,   \* the attribute map handed to the representation protocol
    parser,       \* the AttributesParser deserialized from it
    handed,       \* the JSON value last handed to serde_json::from_value
    out,          \* the result of the last decode / parse operation
    builder,      \* the AttributesBuilder
    added,        \* history: what was last added to the builder, and the adds that failed
    encoded,      \* history: the last to_attributes_* call and the map it was given
    cb,           \* the ConventionBuilder
    calls,        \* history: the setter calls made on cb, in order
    conv          \* the Result<Convention> last built or deserialized

regvars == <<uuid_reg, schema_reg, spec_reg, writer, pc, arg, log, rd, poisoned>>
attrvars == <<attributes, parser, handed, out>>
bldvars == <<builder, added>>
convvars == <<cb, calls, conv>>
vars == <<uuid_reg, schema_reg, spec_reg, writer, pc, arg, log, rd, poisoned,
          attributes, parser, handed, out,
          builder, added, encoded, cb, calls, conv>>

-----------------------------------------------------------------------------
(* Bounds *)

\* Threads that call register.
NumThreads == 2
\* Register calls in one behaviour.
MaxCalls == 3
\* Records in the zarr_conventions list of an attribute map.
MaxConventions == 2
\* to_attributes_* calls on one attribute map.
MaxEncodes == 2
\* Setter calls on one ConventionBuilder.
MaxSetterCalls == 3
\* add_nested, add_prefixed and add_attribute calls on one AttributesBuilder.
MaxAdds == 3

Threads == 1..NumThreads

-----------------------------------------------------------------------------
(* Option<T> *)

None == [some |-> FALSE]
Some(v) == [some |-> TRUE, v |-> v]

-----------------------------------------------------------------------------
(* Identity model: convention.rs, lib.rs *)

\* A uuid is a 128-bit number; the urls, names and descriptions are numbered
\* in their sort order.
Uuids == {1, 2}
Urls == {1, 2}

\* struct ConventionDefinition
ConventionDefinition(u, sch, sp, n, d) ==
    [uuid |-> u, schema_url |-> sch, spec_url |-> sp, name |-> n, description |-> d]

\* The DEFINITION constants of the convention types that may be registered:
\* every combination of the identifiers, and two that differ in the name only.
Definitions ==
    {ConventionDefinition(u, sch, sp, 1, 1) : u \in Uuids, sch \in Urls, sp \in Urls}
        \cup {ConventionDefinition(1, 1, 1, 2, 1)}

\* #[derive(PartialOrd, Ord)] on ConventionDefinition: lexicographic over the fields
DefLess(a, b) ==
    \/ a.uuid < b.uuid
    \/ a.uuid = b.uuid /\ a.schema_url < b.schema_url
    \/ a.uuid = b.uuid /\ a.schema_url = b.schema_url /\ a.spec_url < b.spec_url
    \/ a.uuid = b.uuid /\ a.schema_url = b.schema_url /\ a.spec_url = b.spec_url
         /\ a.name < b.name
    \/ a.uuid = b.uuid /\ a.schema_url = b.schema_url /\ a.spec_url = b.spec_url
         /\ a.name = b.name /\ a.description < b.description

\* enum ConventionId
IdUuid(u) == [kind |-> "Uuid", v |-> u]
IdSchemaUrl(u) == [kind |-> "SchemaUrl", v |-> u]
IdSpecUrl(u) == [kind |-> "SpecUrl", v |-> u]

ConventionIds ==
    {IdUuid(u) : u \in Uuids} \cup {IdSchemaUrl(u) : u \in Urls}
        \cup {IdSpecUrl(u) : u \in Urls}

id_uuid(d) == IdUuid(d.uuid)
id_schema(d) == IdSchemaUrl(d.schema_url)
id_spec(d) == IdSpecUrl(d.spec_url)

-----------------------------------------------------------------------------
(* BTreeMap *)

\* An insert that drops every other entry of the map.
BTreeMapInsertEvicting(m, k, v) ==
    [old |-> IF k \in DOMAIN m THEN Some(m[k]) ELSE None,
     map |-> (k :> v)]

\* BTreeMap::insert as register uses it: the value is stored under the key,
\* replacing the value that was there, and the replaced value is returned.
BTreeMapInsert(m, k, v) ==
    [old |-> IF k \in DOMAIN m THEN Some(m[k]) ELSE None,
     map |-> (k :> v) @@ m]

\* The keys of a BTreeMap in ascending order.
RECURSIVE SortedKeys(_)
SortedKeys(S) ==
    IF S = {} THEN <<>>
    ELSE LET k == CHOOSE x \in S : \A y \in S : x <= y
         IN <<k>> \o SortedKeys(S \ {k})

-----------------------------------------------------------------------------
(* Registry readers: registry.rs *)

\* contains with the uuid arm alone.
containsUuidOnly(id) ==
    id.kind = "Uuid" /\ id.v \in DOMAIN uuid_reg

\* ConventionRegistry::contains
contains(id) ==
    CASE id.kind = "Uuid" -> id.v \in DOMAIN uuid_reg
      [] id.kind = "SchemaUrl" -> id.v \in DOMAIN schema_reg
      [] id.kind = "SpecUrl" -> id.v \in DOMAIN spec_reg

\* get with every kind of identifier looked up in uuid_reg.
getFromUuidReg(id) ==
    IF id.v \in DOMAIN uuid_reg THEN Some(uuid_reg[id.v]) ELSE None

\* ConventionRegistry::get
get(id) ==
    CASE id.kind = "Uuid" ->
            IF id.v \in DOMAIN uuid_reg THEN Some(uuid_reg[id.v]) ELSE None
      [] id.kind = "SchemaUrl" ->
            IF id.v \in DOMAIN schema_reg THEN Some(schema_reg[id.v]) ELSE None
      [] id.kind = "SpecUrl" ->
            IF id.v \in DOMAIN spec_reg THEN Some(spec_reg[id.v]) ELSE None

\* ConventionRegistry::conventions: the values of uuid_reg in key order
conventions ==
    LET ks == SortedKeys(DOMAIN uuid_reg)
    IN [i \in 1..Len(ks) |-> uuid_reg[ks[i]]]

NoRead == [op |-> "none"]

\* expect("RwLock poisoned") on the Err of a poisoned lock: the call panics.
PoisonPanic(call) == [op |-> "panic", call |-> call, msg |-> "RwLock poisoned"]
NoOut == [op |-> "none"]

-----------------------------------------------------------------------------
(* Registry: the state after ConventionRegistry::default() *)

RegInit ==
    /\ uuid_reg = <<>>
    /\ schema_reg = <<>>
    /\ spec_reg = <<>>
    /\ writer = 0
    /\ pc = [t \in Threads |-> "idle"]
    /\ arg = [t \in Threads |-> None]
    /\ log = <<>>
    /\ rd = NoRead
    /\ poisoned = FALSE

\* The protocol's variables, which the registry never touches.
AttrIdle ==
    /\ attributes = <<>>
    /\ parser = None
    /\ handed = None
    /\ out = NoOut

\* The builders' variables, before any builder exists.
BldIdle ==
    /\ builder = None
    /\ added = None

EncIdle == encoded = <<>>

ConvIdle ==
    /\ cb = None
    /\ calls = <<>>
    /\ conv = None

Init == RegInit /\ AttrIdle /\ BldIdle /\ EncIdle /\ ConvIdle

\* The history record of the call in progress gets its result.
Returned(res) ==
    [log EXCEPT ![Len(log)].res = res]

\* register, line 58: self.inner.write().expect("RwLock poisoned"). The write
\* guard is exclusive: no other writer holds it, and readers hold the read guard
\* only inside one step. On a poisoned lock write() is an Err and the thread
\* panics there.
RegisterLock(t, d) ==
    /\ pc[t] = "idle"
    /\ writer = 0
    /\ IF poisoned
       THEN /\ pc' = [pc EXCEPT ![t] = "panicked"]
            /\ UNCHANGED <<writer, arg, log, rd>>
       ELSE /\ Len(log) < MaxCalls
            /\ writer' = t
            /\ pc' = [pc EXCEPT ![t] = "uuid"]
            /\ arg' = [arg EXCEPT ![t] = Some(d)]
            /\ log' = Append(log, [def |-> d, res |-> "pending",
                                   had_uuid |-> get(id_uuid(d)),
                                   had_schema |-> get(id_schema(d)),
                                   had_spec |-> get(id_spec(d))])
            /\ rd' = NoRead
    /\ UNCHANGED <<uuid_reg, schema_reg, spec_reg>>
    /\ UNCHANGED <<poisoned, attrvars, bldvars, encoded, convvars>>

\* register's uuid step failing whenever another convention is registered.
RegisterUuidAlone(t) ==
    /\ pc[t] = "uuid"
    /\ writer = t
    /\ LET d == arg[t].v
           r == BTreeMapInsert(uuid_reg, d.uuid, d)
       IN /\ uuid_reg' = r.map
          /\ IF uuid_reg # <<>>
             THEN /\ log' = Returned("dup_uuid")
                  /\ writer' = 0
                  /\ pc' = [pc EXCEPT ![t] = "idle"]
                  /\ arg' = [arg EXCEPT ![t] = None]
             ELSE /\ pc' = [pc EXCEPT ![t] = "schema"]
                  /\ UNCHANGED <<log, writer, arg>>
    /\ UNCHANGED <<schema_reg, spec_reg, rd>>
    /\ UNCHANGED <<poisoned, attrvars, bldvars, encoded, convvars>>

\* register, lines 59-68: insert under the uuid; Err when a value was replaced.
RegisterUuid(t) ==
    /\ pc[t] = "uuid"
    /\ writer = t
    /\ LET d == arg[t].v
           r == BTreeMapInsert(uuid_reg, d.uuid, d)
       IN /\ uuid_reg' = r.map
          /\ IF r.old.some
             THEN /\ log' = Returned("dup_uuid")
                  /\ writer' = 0
                  /\ pc' = [pc EXCEPT ![t] = "idle"]
                  /\ arg' = [arg EXCEPT ![t] = None]
             ELSE /\ pc' = [pc EXCEPT ![t] = "schema"]
                  /\ UNCHANGED <<log, writer, arg>>
    /\ UNCHANGED <<schema_reg, spec_reg, rd>>
    /\ UNCHANGED <<poisoned, attrvars, bldvars, encoded, convvars>>

\* register's schema step without the test of the replaced value.
RegisterSchemaUnchecked(t) ==
    /\ pc[t] = "schema"
    /\ writer = t
    /\ schema_reg' = BTreeMapInsert(schema_reg, arg[t].v.schema_url, arg[t].v).map
    /\ pc' = [pc EXCEPT ![t] = "spec"]
    /\ UNCHANGED <<uuid_reg, spec_reg, log, writer, arg, rd>>
    /\ UNCHANGED <<poisoned, attrvars, bldvars, encoded, convvars>>

\* register, lines 69-78: insert under the schema url.
RegisterSchema(t) ==
    /\ pc[t] = "schema"
    /\ writer = t
    /\ LET d == arg[t].v
           r == BTreeMapInsert(schema_reg, d.schema_url, d)
       IN /\ schema_reg' = r.map
          /\ IF r.old.some
             THEN /\ log' = Returned("dup_schema")
                  /\ writer' = 0
                  /\ pc' = [pc EXCEPT ![t] = "idle"]
                  /\ arg' = [arg EXCEPT ![t] = None]
             ELSE /\ pc' = [pc EXCEPT ![t] = "spec"]
                  /\ UNCHANGED <<log, writer, arg>>
    /\ UNCHANGED <<uuid_reg, spec_reg, rd>>
    /\ UNCHANGED <<poisoned, attrvars, bldvars, encoded, convvars>>

\* register's spec step undoing the call's earlier insertions when it fails.
RegisterSpecRollingBack(t) ==
    /\ pc[t] = "spec"
    /\ writer = t
    /\ LET d == arg[t].v
           r == BTreeMapInsert(spec_reg, d.spec_url, d)
       IN IF r.old.some
          THEN /\ uuid_reg' = [k \in DOMAIN uuid_reg \ {d.uuid} |-> uuid_reg[k]]
               /\ schema_reg' = [k \in DOMAIN schema_reg \ {d.schema_url} |-> schema_reg[k]]
               /\ spec_reg' = spec_reg
               /\ log' = Returned("dup_spec")
          ELSE /\ spec_reg' = r.map
               /\ log' = Returned("ok")
               /\ UNCHANGED <<uuid_reg, schema_reg>>
    /\ writer' = 0
    /\ pc' = [pc EXCEPT ![t] = "idle"]
    /\ arg' = [arg EXCEPT ![t] = None]
    /\ UNCHANGED rd
    /\ UNCHANGED <<poisoned, attrvars, bldvars, encoded, convvars>>

\* register, lines 79-89: insert under the spec url, then Ok(self).
RegisterSpec(t) ==
    /\ pc[t] = "spec"
    /\ writer = t
    /\ LET d == arg[t].v
           r == BTreeMapInsert(spec_reg, d.spec_url, d)
       IN /\ spec_reg' = r.map
          /\ log' = Returned(IF r.old.some THEN "dup_spec" ELSE "ok")
    /\ writer' = 0
    /\ pc' = [pc EXCEPT ![t] = "idle"]
    /\ arg' = [arg EXCEPT ![t] = None]
    /\ UNCHANGED <<uuid_reg, schema_reg, rd>>
    /\ UNCHANGED <<poisoned, attrvars, bldvars, encoded, convvars>>

\* contains reading the maps without the read guard.
ContainsUnguarded(id) ==
    /\ rd' = [op |-> "contains", id |-> id, ret |-> contains(id)]
    /\ UNCHANGED <<uuid_reg, schema_reg, spec_reg, writer, pc, arg, log>>
    /\ UNCHANGED <<poisoned, attrvars, bldvars, encoded, convvars>>

\* A reader: self.inner.read() is granted only while no write guard is held, and
\* expect("RwLock poisoned") panics when the lock is poisoned.
Contains(id) ==
    /\ writer = 0
    /\ rd' = IF poisoned THEN PoisonPanic("contains")
             ELSE [op |-> "contains", id |-> id, ret |-> contains(id)]
    /\ UNCHANGED <<uuid_reg, schema_reg, spec_reg, writer, pc, arg, log>>
    /\ UNCHANGED <<poisoned, attrvars, bldvars, encoded, convvars>>

\* get returning what the map holds whether or not the lock is poisoned.
GetRecovering(id) ==
    /\ writer = 0
    /\ rd' = [op |-> "get", id |-> id, ret |-> get(id)]
    /\ UNCHANGED <<uuid_reg, schema_reg, spec_reg, writer, pc, arg, log>>
    /\ UNCHANGED <<poisoned, attrvars, bldvars, encoded, convvars>>

Get(id) ==
    /\ writer = 0
    /\ rd' = IF poisoned THEN PoisonPanic("get")
             ELSE [op |-> "get", id |-> id, ret |-> get(id)]
    /\ UNCHANGED <<uuid_reg, schema_reg, spec_reg, writer, pc, arg, log>>
    /\ UNCHANGED <<poisoned, attrvars, bldvars, encoded, convvars>>

Conventions ==
    /\ writer = 0
    /\ rd' = IF poisoned THEN PoisonPanic("conventions")
             ELSE [op |-> "conventions", ret |-> conventions]
    /\ UNCHANGED <<uuid_reg, schema_reg, spec_reg, writer, pc, arg, log>>
    /\ UNCHANGED <<poisoned, attrvars, bldvars, encoded, convvars>>

Next ==
    \/ \E t \in Threads, d \in Definitions : RegisterLock(t, d)
    \/ \E t \in Threads : RegisterUuid(t)
    \/ \E t \in Threads : RegisterSchema(t)
    \/ \E t \in Threads : RegisterSpec(t)
    \/ \E id \in ConventionIds : Contains(id)
    \/ \E id \in ConventionIds : Get(id)
    \/ Conventions

Spec == Init /\ [][Next]_vars

\* A panic unwinds out of register while `inner`, the write guard, is live: the
\* guard is dropped, which releases the lock and sets its poison flag, and the
\* call never returns.
PanicInRegister(t) ==
    /\ pc[t] \in {"uuid", "schema", "spec"}
    /\ writer = t
    /\ poisoned' = TRUE
    /\ writer' = 0
    /\ pc' = [pc EXCEPT ![t] = "panicked"]
    /\ arg' = [arg EXCEPT ![t] = None]
    /\ UNCHANGED <<uuid_reg, schema_reg, spec_reg, log, rd>>
    /\ UNCHANGED <<attrvars, bldvars, encoded, convvars>>

PoisonNext ==
    \/ \E t \in Threads, d \in Definitions : RegisterLock(t, d)
    \/ \E t \in Threads : RegisterUuid(t)
    \/ \E t \in Threads : RegisterSchema(t)
    \/ \E t \in Threads : RegisterSpec(t)
    \/ \E t \in Threads : PanicInRegister(t)
    \/ \E id \in ConventionIds : Contains(id)
    \/ \E id \in ConventionIds : Get(id)
    \/ Conventions

\* The registry with panics inside register.
PoisonSpec == Init /\ [][PoisonNext]_vars

-----------------------------------------------------------------------------
(* Registry claims *)

Duplicate == {"dup_uuid", "dup_schema", "dup_spec"}

\* The identifiers of a definition.
IdsOf(d) == {id_uuid(d), id_schema(d), id_spec(d)}

\* The keys a finished register call stored, given where it returned.
StoredBy(e) ==
    {id_uuid(e.def)}
        \cup (IF e.res \in {"dup_schema", "dup_spec", "ok"} THEN {id_schema(e.def)} ELSE {})
        \cup (IF e.res \in {"dup_spec", "ok"} THEN {id_spec(e.def)} ELSE {})

\* Call i is the first call that stored the key id.
FirstStore(i, id) ==
    /\ id \in StoredBy(log[i])
    /\ \A h \in 1..(i - 1) : id \notin StoredBy(log[h])

\* C1 (as claimed): with no register call in progress, every key is bound to the
\* definition of the first call that stored it, and every later call for a
\* definition sharing the key returned a duplicate failure.
C1_FirstWriterWins ==
    writer = 0 =>
        \A id \in ConventionIds : \A i \in 1..Len(log) :
            FirstStore(i, id) =>
                /\ get(id) = Some(log[i].def)
                /\ \A j \in (i + 1)..Len(log) :
                        id \in IdsOf(log[j].def) => log[j].res \in Duplicate

\* C2: a finished register(D) returned Ok exactly when none of D's three keys was
\* present when it took the lock, and a failure names a key of D that was present.
C2_DuplicateFailure ==
    \A i \in 1..Len(log) :
        LET e == log[i] IN
        e.res # "pending" =>
            /\ e.res = "ok" <=>
                 (~e.had_uuid.some /\ ~e.had_schema.some /\ ~e.had_spec.some)
            /\ e.res \in Duplicate <=>
                 (e.had_uuid.some \/ e.had_schema.some \/ e.had_spec.some)
            /\ e.res = "dup_uuid" => e.had_uuid.some
            /\ e.res = "dup_schema" => e.had_schema.some
            /\ e.res = "dup_spec" => e.had_spec.some

\* A call failed on its spec url alone: its uuid and schema url were new.
C2_Witness ==
    \E i \in 1..Len(log) :
        /\ log[i].res = "dup_spec"
        /\ ~log[i].had_uuid.some
        /\ ~log[i].had_schema.some
        /\ log[i].had_spec.some

\* C3: the first register call on a registry succeeds; a register(D) that directly
\* follows a successful register(D) fails with a duplicate failure, and once it has
\* returned contains is true and get returns D for each of D's identifiers.
C3_RegisterTwice ==
    /\ (Len(log) >= 1 /\ log[1].res # "pending") => log[1].res = "ok"
    /\ \A i \in 1..(Len(log) - 1) :
          (log[i].def = log[i + 1].def /\ log[i].res = "ok"
                /\ log[i + 1].res # "pending") =>
              /\ log[i + 1].res \in Duplicate
              /\ (i + 1 = Len(log) /\ writer = 0) =>
                    \A id \in IdsOf(log[i].def) :
                        contains(id) /\ get(id) = Some(log[i].def)

\* D was registered, registered again, and a reader then got D back.
C3_Witness ==
    /\ Len(log) = 2
    /\ log[1].def = log[2].def
    /\ log[1].res = "ok"
    /\ log[2].res = "dup_uuid"
    /\ rd.op = "get"
    /\ rd.id = id_spec(log[1].def)
    /\ rd.ret = Some(log[1].def)

\* C4: when the latest register(D) has returned Ok, contains is true and get
\* returns D for id_uuid, id_schema and id_spec of D; an identifier that no call
\* has stored is not contained and get returns None for it. What a reader returned
\* is what contains / get give in the state it read.
C4_RegisterThenGet ==
    writer = 0 =>
        /\ (Len(log) >= 1 /\ log[Len(log)].res = "ok") =>
              \A id \in IdsOf(log[Len(log)].def) :
                  contains(id) /\ get(id) = Some(log[Len(log)].def)
        /\ \A id \in ConventionIds :
              (\A i \in 1..Len(log) : id \notin StoredBy(log[i])) =>
                  ~contains(id) /\ get(id) = None
        /\ rd.op = "get" => rd.ret = get(rd.id)
        /\ rd.op = "contains" => rd.ret = contains(rd.id)

\* A definition whose identifiers differ was registered, get by its schema url
\* returned it, and some identifier is not contained.
C4_Witness ==
    /\ Len(log) = 1
    /\ log[1].res = "ok"
    /\ log[1].def.uuid # log[1].def.schema_url
    /\ rd.op = "get"
    /\ rd.id = id_schema(log[1].def)
    /\ rd.ret = Some(log[1].def)
    /\ \E id \in ConventionIds : ~contains(id)

\* C5 (as claimed): with no register call in progress, conventions() holds every
\* definition whose register call returned Ok exactly once, and is in strictly
\* ascending order of the definitions' total order.
C5_ConventionsComplete ==
    writer = 0 =>
        LET c == conventions IN
        /\ \A i \in 1..Len(log) :
              log[i].res = "ok" =>
                  Cardinality({k \in 1..Len(c) : c[k] = log[i].def}) = 1
        /\ \A a \in 1..Len(c) : \A b \in 1..Len(c) :
              a < b => DefLess(c[a], c[b])

\* A finished call that failed after it had inserted a key.
FailedLate(e) == e.res \in {"dup_schema", "dup_spec"}

\* C22: register does not roll back. After register(D) failed on D's schema_url
\* or spec_url, D's uuid is still contained, and D's schema_url too when the
\* failure was on the spec_url; while no later call has been made, get returns D
\* for these keys, and a contains of D's uuid made after the call returned true.
C22_NoRollBack ==
    \A i \in 1..Len(log) :
        LET e == log[i] IN
        FailedLate(e) =>
            /\ contains(id_uuid(e.def))
            /\ e.res = "dup_spec" => contains(id_schema(e.def))
            /\ i = Len(log) =>
                  /\ get(id_uuid(e.def)) = Some(e.def)
                  /\ e.res = "dup_spec" => get(id_schema(e.def)) = Some(e.def)
            /\ (rd.op = "contains" /\ rd.id = id_uuid(e.def)) => rd.ret = TRUE

\* A call whose uuid and schema url were new failed on its spec url, and a
\* contains of its uuid then returned true.
C22_Witness ==
    /\ Len(log) = 2
    /\ log[2].res = "dup_spec"
    /\ ~log[2].had_uuid.some
    /\ ~log[2].had_schema.some
    /\ rd.op = "contains"
    /\ rd.id = id_uuid(log[2].def)
    /\ rd.ret = TRUE
    /\ get(id_schema(log[2].def)) = Some(log[2].def)

\* C25: the registry only grows. No step of any register call, successful or
\* failed, and no reader removes a key: an identifier that is contained before a
\* step is contained after it.
C25_OnlyGrows ==
    [][\A id \in ConventionIds : contains(id) => contains(id)']_vars

\* contains returned true for the uuid of the first definition registered, after
\* a failed and a successful register call had followed it.
C25_Witness ==
    /\ Len(log) = 3
    /\ log[1].res = "ok"
    /\ log[2].res \in Duplicate
    /\ log[3].res = "ok"
    /\ rd.op = "contains"
    /\ rd.id = id_uuid(log[1].def)
    /\ rd.ret = TRUE

\* The definitions a and b share no uuid, schema url or spec url.
Independent(a, b) ==
    a.uuid # b.uuid /\ a.schema_url # b.schema_url /\ a.spec_url # b.spec_url

\* The definitions of the register calls made.
Called == {log[i].def : i \in 1..Len(log)}

\* The register calls made were of pairwise independent definitions.
IndependentCalls ==
    \A i \in 1..Len(log) : \A j \in 1..Len(log) :
        i # j => Independent(log[i].def, log[j].def)

\* C26: when the register calls made were of pairwise independent definitions
\* and all have returned, in whatever order the threads made them, every call
\* succeeded and the registry's contents are determined by the set of the
\* definitions: contains is true exactly for their identifiers, get returns for
\* an identifier the definition that has it, and conventions() lists each
\* definition once, in the order of the uuids.
C26_OrderDoesNotMatter ==
    (writer = 0 /\ IndependentCalls) =>
        /\ \A i \in 1..Len(log) : log[i].res = "ok"
        /\ \A id \in ConventionIds :
              /\ contains(id) <=> \E d \in Called : id \in IdsOf(d)
              /\ \A d \in Called : id \in IdsOf(d) => get(id) = Some(d)
              /\ (\A d \in Called : id \notin IdsOf(d)) => get(id) = None
        /\ Len(conventions) = Cardinality(Called)
        /\ {conventions[k] : k \in 1..Len(conventions)} = Called
        /\ \A a \in 1..Len(conventions) : \A b \in 1..Len(conventions) :
              a < b => conventions[a].uuid < conventions[b].uuid

\* Two independent definitions were registered, the one with the greater uuid
\* first, and conventions() returned them in the order of their uuids.
C26_Witness ==
    /\ Len(log) = 2
    /\ IndependentCalls
    /\ log[1].def.uuid > log[2].def.uuid
    /\ log[1].def.schema_url < log[2].def.schema_url
    /\ log[1].res = "ok"
    /\ log[2].res = "ok"
    /\ rd.op = "conventions"
    /\ rd.ret = <<log[2].def, log[1].def>>

\* The register call e succeeds: it returned Ok, or it is in progress and none of
\* its keys was present when it took the lock.
Succeeds(e) ==
    \/ e.res = "ok"
    \/ /\ e.res = "pending"
       /\ ~e.had_uuid.some /\ ~e.had_schema.some /\ ~e.had_spec.some

\* The keys of d that are present.
PresentKeys(d) == {id \in IdsOf(d) : contains(id)}

\* C27: the state a reader has read holds, of every register(D) call that
\* succeeds, none of D's three keys or all three, and what the reader returned
\* about a key of D agrees with it: contains and get answer alike for D's three
\* keys, and conventions() lists D exactly when D's keys are present.
C27_NoHalfDoneRead ==
    rd.op # "none" =>
        \A i \in 1..Len(log) :
            LET d == log[i].def IN
            Succeeds(log[i]) =>
                /\ PresentKeys(d) \in {{}, IdsOf(d)}
                /\ (rd.op = "contains" /\ rd.id \in IdsOf(d)) =>
                      rd.ret = (PresentKeys(d) = IdsOf(d))
                /\ (rd.op = "get" /\ rd.id \in IdsOf(d)) =>
                      rd.ret.some = (PresentKeys(d) = IdsOf(d))
                /\ rd.op = "conventions" =>
                      (\E k \in 1..Len(rd.ret) : rd.ret[k].uuid = d.uuid)
                          = (PresentKeys(d) = IdsOf(d))

\* After the two threads' register calls had both succeeded, get by the spec url
\* of the second returned a definition.
C27_Witness ==
    /\ Len(log) = 2
    /\ log[1].res = "ok"
    /\ log[2].res = "ok"
    /\ rd.op = "get"
    /\ rd.id = id_spec(log[2].def)
    /\ rd.ret = Some(log[2].def)
    /\ PresentKeys(log[1].def) = IdsOf(log[1].def)

\* The definitions a map of the registry holds.
Held(m) == {m[k] : k \in DOMAIN m}

\* C29 (as claimed): with no register call in progress, get returns D for
\* id_uuid, id_schema and id_spec of every definition D that conventions()
\* returns, and the uuid, schema-url and spec-url maps hold the same definitions.
C29_FullyRegistered ==
    writer = 0 =>
        /\ \A k \in 1..Len(conventions) :
              \A id \in IdsOf(conventions[k]) : get(id) = Some(conventions[k])
        /\ Held(uuid_reg) = Held(schema_reg)
        /\ Held(uuid_reg) = Held(spec_reg)

\* C28: once a panic inside register has poisoned the lock, it stays poisoned,
\* and every register, contains, get and conventions call panics: a thread that
\* calls register dies at the lock, what a reader leaves is a panic and never a
\* value read from the maps, and the maps and the history of calls do not change.
C28_PoisonedIsFatal ==
    [][/\ poisoned' => rd'.op \in {"none", "panic"}
       /\ poisoned =>
             /\ poisoned'
             /\ UNCHANGED <<uuid_reg, schema_reg, spec_reg, log, writer, arg>>
             /\ \A t \in Threads :
                   pc'[t] # pc[t] => pc[t] = "idle" /\ pc'[t] = "panicked"
             /\ rd' # rd => rd'.op = "panic"]_vars

\* A thread panicked inside register after it had inserted its uuid, the other
\* thread's register call then panicked at the lock, and so did conventions().
C28_Witness ==
    /\ poisoned
    /\ \A t \in Threads : pc[t] = "panicked"
    /\ Len(log) = 1
    /\ log[1].res = "pending"
    /\ contains(id_uuid(log[1].def))
    /\ ~contains(id_spec(log[1].def))
    /\ rd = PoisonPanic("conventions")

-----------------------------------------------------------------------------
(* serde_json::Value *)

Null == [tag |-> "null"]
Num(n) == [tag |-> "num", n |-> n]
Str(x) == [tag |-> "str", s |-> x]
Arr(items) == [tag |-> "arr", items |-> items]
Obj(m) == [tag |-> "obj", map |-> m]

\* Result<T, E>
Ok(v) == [ok |-> TRUE, v |-> v]
Err(e) == [ok |-> FALSE, err |-> e]

\* The largest u8.
U8Max == 255

-----------------------------------------------------------------------------
(* The convention types of tests.rs *)

\* The text of a uuid and of a url, as they stand in a JSON document.
UuidText ==
    (1 :> "11111111-1111-1111-1111-111111111111")
        @@ (2 :> "22222222-2222-2222-2222-222222222222")
        @@ (3 :> "33333333-3333-3333-3333-333333333333")
        @@ (4 :> "44444444-4444-4444-4444-444444444444")
        @@ (5 :> "55555555-5555-5555-5555-555555555555")

SchemaUrlText ==
    (1 :> "https://example.com/schemas/can_be_either.json")
        @@ (2 :> "https://example.com/schemas/must_be_nested.json")
        @@ (3 :> "https://example.com/schemas/mustprefixed.json")
        @@ (4 :> "https://example.com/schemas/scalar_value.json")
        @@ (5 :> "https://example.com/schemas/unserializable.json")

SpecUrlText ==
    (1 :> "https://example.com/specs/can_be_either")
        @@ (2 :> "https://example.com/specs/must_be_nested")
        @@ (3 :> "https://example.com/specs/mustprefixed")
        @@ (4 :> "https://example.com/specs/scalar_value")
        @@ (5 :> "https://example.com/specs/unserializable")

NameText ==
    (1 :> "can_be_either") @@ (2 :> "must_be_nested") @@ (3 :> "must_be_prefixed")
        @@ (4 :> "scalar_value") @@ (5 :> "unserializable")

DescriptionText ==
    (1 :> "A convention that can be represented in either nested or prefixed form.")
        @@ (2 :> "A convention that must be represented in nested form.")
        @@ (3 :> "A convention that must be represented in prefixed form.")
        @@ (4 :> "A convention whose value serializes to a number.")
        @@ (5 :> "A convention whose value does not serialize.")

\* struct MustBeNested { a: u8, b: u8 }, impl NestedRepr
MustBeNested ==
    [name |-> "MustBeNested",
     DEFINITION |-> ConventionDefinition(1, 2, 2, 2, 2),
     nested |-> TRUE, KEY |-> "must_be_nested",
     prefixed |-> FALSE, PREFIX |-> "",
     fields |-> <<"a", "b">>, shape |-> "struct"]

\* struct MustBePrefixed { x: u8, y: u8 }, impl PrefixedRepr
MustBePrefixed ==
    [name |-> "MustBePrefixed",
     DEFINITION |-> ConventionDefinition(2, 3, 3, 3, 3),
     nested |-> FALSE, KEY |-> "",
     prefixed |-> TRUE, PREFIX |-> "must_be_prefixed:",
     fields |-> <<"x", "y">>, shape |-> "struct"]

\* struct CanBeEither { foo: u8, bar: u8 }, impl NestedRepr and PrefixedRepr
CanBeEither ==
    [name |-> "CanBeEither",
     DEFINITION |-> ConventionDefinition(3, 1, 1, 1, 1),
     nested |-> TRUE, KEY |-> "can_be_either",
     prefixed |-> TRUE, PREFIX |-> "can_be_either:",
     fields |-> <<"foo", "bar">>, shape |-> "struct"]

Types == {MustBeNested, MustBePrefixed, CanBeEither}

Range(f) == {f[i] : i \in DOMAIN f}

\* u8's Deserialize: a JSON number in 0..255.
IsU8(v) == v.tag = "num" /\ v.n >= 0 /\ v.n <= U8Max

\* #[derive(Deserialize)] on a struct of u8 fields, through serde_json::from_value:
\* from an object every field must be there (fields it does not know are skipped),
\* from an array the elements are the fields in order; anything else is an error.
\* The decoded struct is the function from its field names to their values.
from_value_struct(T, v) ==
    CASE v.tag = "obj" ->
            IF \A f \in Range(T.fields) : f \in DOMAIN v.map /\ IsU8(v.map[f])
            THEN Ok([f \in Range(T.fields) |-> v.map[f].n])
            ELSE Err("decode")
      [] v.tag = "arr" ->
            IF /\ Len(v.items) = Len(T.fields)
               /\ \A i \in 1..Len(v.items) : IsU8(v.items[i])
            THEN Ok([f \in Range(T.fields) |->
                        v.items[CHOOSE i \in 1..Len(T.fields) : T.fields[i] = f].n])
            ELSE Err("decode")
      [] OTHER -> Err("decode")

\* serde_json::from_value::<T>: by the shape of T. A newtype struct of a u8 decodes
\* from a number, a tuple struct from an array of its length, a unit struct from
\* null; the fields of a newtype or tuple struct are named by their position.
from_value(T, v) ==
    CASE T.shape = "newtype" ->
            IF IsU8(v) THEN Ok([f \in Range(T.fields) |-> v.n]) ELSE Err("decode")
      [] T.shape = "tuple" ->
            IF v.tag = "arr" THEN from_value_struct(T, v) ELSE Err("decode")
      [] T.shape = "unit" ->
            IF v.tag = "null" THEN Ok(<<>>) ELSE Err("decode")
      [] OTHER -> from_value_struct(T, v)

-----------------------------------------------------------------------------
(* Representation protocol: lib.rs, traits.rs *)

\* str::strip_prefix
strip_prefix(k, prefix) ==
    IF Len(k) >= Len(prefix) /\ SubSeq(k, 1, Len(prefix)) = prefix
    THEN Some(SubSeq(k, Len(prefix) + 1, Len(k)))
    ELSE None

\* nest_prefixed folding into an empty map instead of out.
nest_prefixed_from_empty(prefix, map, o) ==
    LET hits == {k \in DOMAIN map : strip_prefix(k, prefix).some}
        stripped == {strip_prefix(k, prefix).v : k \in hits}
    IN Obj([f \in stripped |->
              map[CHOOSE k \in hits : strip_prefix(k, prefix).v = f]])

\* nest_prefixed: every entry of map whose key starts with prefix is inserted
\* into out under the key with the prefix stripped; insert replaces.
nest_prefixed(prefix, map, o) ==
    LET hits == {k \in DOMAIN map : strip_prefix(k, prefix).some}
        stripped == {strip_prefix(k, prefix).v : k \in hits}
    IN Obj([f \in stripped \cup DOMAIN o |->
              IF f \in stripped
              THEN map[CHOOSE k \in hits : strip_prefix(k, prefix).v = f]
              ELSE o[f]])

\* What a decode operation did: the value it handed to serde_json::from_value
\* (None when it returned before) and what it returned.
Decoded(T, v) == [handed |-> Some(v), ret |-> from_value(T, v)]
KeyNotFound == [handed |-> None, ret |-> Err("key not found")]

\* from_attributes_prefixed reporting key-not-found when no key has the prefix.
from_attributes_prefixed_needing_key(T, attrs) ==
    IF \E k \in DOMAIN attrs : strip_prefix(k, T.PREFIX).some
    THEN Decoded(T, nest_prefixed(T.PREFIX, attrs, <<>>))
    ELSE KeyNotFound

\* PrefixedRepr::from_attributes_prefixed
from_attributes_prefixed(T, attrs) ==
    Decoded(T, nest_prefixed(T.PREFIX, attrs, <<>>))

\* NestedRepr::from_attributes_nested
from_attributes_nested(T, attrs) ==
    IF T.KEY \in DOMAIN attrs THEN Decoded(T, attrs[T.KEY]) ELSE KeyNotFound

\* from_attributes that merges the prefixed keys into whatever the nested key holds.
from_attributes_always_merge(T, attrs) ==
    IF T.KEY \in DOMAIN attrs
    THEN Decoded(T, nest_prefixed(T.PREFIX, attrs,
                        IF attrs[T.KEY].tag = "obj" THEN attrs[T.KEY].map ELSE <<>>))
    ELSE from_attributes_prefixed(T, attrs)

\* from_attributes that decodes the nested form alone.
from_attributes_nested_only(T, attrs) ==
    from_attributes_nested(T, attrs)

\* FromNestedOrPrefixed::from_attributes
from_attributes(T, attrs) ==
    IF T.KEY \in DOMAIN attrs
    THEN IF attrs[T.KEY].tag = "obj"
         THEN Decoded(T, nest_prefixed(T.PREFIX, attrs, attrs[T.KEY].map))
         ELSE Decoded(T, attrs[T.KEY])
    ELSE from_attributes_prefixed(T, attrs)

-----------------------------------------------------------------------------
(* In-use identifiers and the parser: convention.rs, lib.rs, attributes.rs *)

\* Deserialize of an Option<Uuid> / Option<UriBuf> field of ConventionBuilder from
\* the object m: a missing field and null are None, a string that parses is Some,
\* anything else is an error. The texts that parse are those of the table.
OptionFromText(m, field, table) ==
    IF field \notin DOMAIN m \/ m[field].tag = "null" THEN Ok(None)
    ELSE IF m[field].tag = "str" /\ \E i \in DOMAIN table : table[i] = m[field].s
         THEN Ok(Some(CHOOSE i \in DOMAIN table : table[i] = m[field].s))
         ELSE Err("decode")

\* Deserialize of an Option<String> field.
OptionString(m, field) ==
    IF field \notin DOMAIN m \/ m[field].tag = "null" THEN Ok(None)
    ELSE IF m[field].tag = "str" THEN Ok(Some(m[field].s)) ELSE Err("decode")

\* build failing as soon as one of the three identifiers is missing.
ConventionBuilder_build_any_missing(b) ==
    IF ~b.uuid.some \/ ~b.schema_url.some \/ ~b.spec_url.some
    THEN Err("At least one of uuid, schema_url, or spec_url must be set")
    ELSE Ok(b)

\* ConventionBuilder::build
ConventionBuilder_build(b) ==
    IF ~b.uuid.some /\ ~b.schema_url.some /\ ~b.spec_url.some
    THEN Err("At least one of uuid, schema_url, or spec_url must be set")
    ELSE Ok(b)

\* Deserialize for Convention: ConventionBuilder::deserialize, then build. The
\* values it is given here are objects and scalars.
Convention_deserialize(v) ==
    IF v.tag # "obj" THEN Err("decode")
    ELSE LET u == OptionFromText(v.map, "uuid", UuidText)
             sch == OptionFromText(v.map, "schema_url", SchemaUrlText)
             sp == OptionFromText(v.map, "spec_url", SpecUrlText)
             n == OptionString(v.map, "name")
             d == OptionString(v.map, "description")
         IN IF u.ok /\ sch.ok /\ sp.ok /\ n.ok /\ d.ok
            THEN ConventionBuilder_build(
                    [uuid |-> u.v, schema_url |-> sch.v, spec_url |-> sp.v,
                     name |-> n.v, description |-> d.v])
            ELSE Err("decode")

\* ZarrConventions::default()
ZarrConventions_default == [uuids |-> {}, schema_urls |-> {}, spec_urls |-> {}]

\* The fold of ZarrConventions' Deserialize over the records that decode, the
\* others skipped.
ZarrConventions_deserialize_skipping(v) ==
    IF v.tag # "arr" THEN Err("decode")
    ELSE LET all == [i \in 1..Len(v.items) |-> Convention_deserialize(v.items[i])]
             good == {i \in 1..Len(all) : all[i].ok}
         IN Ok([uuids |-> {all[i].v.uuid.v : i \in {j \in good : all[j].v.uuid.some}},
                schema_urls |->
                    {all[i].v.schema_url.v : i \in {j \in good : all[j].v.schema_url.some}},
                spec_urls |->
                    {all[i].v.spec_url.v : i \in {j \in good : all[j].v.spec_url.some}}])

\* Deserialize for ZarrConventions: a Vec<Convention>, folded into the three sets.
ZarrConventions_deserialize(v) ==
    IF v.tag # "arr" THEN Err("decode")
    ELSE LET lst == [i \in 1..Len(v.items) |-> Convention_deserialize(v.items[i])]
         IN IF \E i \in 1..Len(lst) : ~lst[i].ok THEN Err("decode")
            ELSE Ok([uuids |->
                        {lst[i].v.uuid.v : i \in {j \in 1..Len(lst) : lst[j].v.uuid.some}},
                     schema_urls |->
                        {lst[i].v.schema_url.v :
                            i \in {j \in 1..Len(lst) : lst[j].v.schema_url.some}},
                     spec_urls |->
                        {lst[i].v.spec_url.v :
                            i \in {j \in 1..Len(lst) : lst[j].v.spec_url.some}}])

\* ZarrConventions::KEY
ZarrConventions_KEY == "zarr_conventions"

\* ZarrConventions::from_attributes
ZarrConventions_from_attributes(attrs) ==
    IF ZarrConventions_KEY \notin DOMAIN attrs THEN Ok(ZarrConventions_default)
    ELSE ZarrConventions_deserialize(attrs[ZarrConventions_KEY])

\* Deserialize for AttributesParser: zarr_conventions with serde(default), and
\* every other entry flattened into fields.
AttributesParser_deserialize(attrs) ==
    LET zc == IF ZarrConventions_KEY \in DOMAIN attrs
              THEN ZarrConventions_deserialize(attrs[ZarrConventions_KEY])
              ELSE Ok(ZarrConventions_default)
    IN IF ~zc.ok THEN zc
       ELSE Ok([zarr_conventions |-> zc.v,
                fields |-> [k \in DOMAIN attrs \ {ZarrConventions_KEY} |-> attrs[k]]])

\* in_use looking at the uuids alone.
in_use_by_uuid(T, identifiers) ==
    T.DEFINITION.uuid \in identifiers.uuids

\* ZarrConventionImpl::in_use
in_use(T, identifiers) ==
    \/ T.DEFINITION.uuid \in identifiers.uuids
    \/ T.DEFINITION.schema_url \in identifiers.schema_urls
    \/ T.DEFINITION.spec_url \in identifiers.spec_urls

\* Result<T>::map(Some)
MapSome(r) ==
    [handed |-> r.handed, ret |-> IF r.ret.ok THEN Ok(Some(r.ret.v)) ELSE r.ret]

Absent == [handed |-> None, ret |-> Ok(None)]

\* parse_nested without the test of in_use.
parse_nested_ungated(T, p) ==
    MapSome(from_attributes_nested(T, p.fields))

\* parse_nested reporting a missing nested key as absent.
parse_nested_absent_without_key(T, p) ==
    IF ~in_use(T, p.zarr_conventions) \/ T.KEY \notin DOMAIN p.fields THEN Absent
    ELSE MapSome(from_attributes_nested(T, p.fields))

\* AttributesParser::parse_nested
parse_nested(T, p) ==
    IF ~in_use(T, p.zarr_conventions) THEN Absent
    ELSE MapSome(from_attributes_nested(T, p.fields))

\* AttributesParser::parse_prefixed
parse_prefixed(T, p) ==
    IF ~in_use(T, p.zarr_conventions) THEN Absent
    ELSE MapSome(from_attributes_prefixed(T, p.fields))

\* AttributesParser::parse
parse(T, p) ==
    IF ~in_use(T, p.zarr_conventions) THEN Absent
    ELSE MapSome(from_attributes(T, p.fields))

-----------------------------------------------------------------------------
(* The attribute maps the protocol is run on *)

\* The identity record of definition d with the fields of sel.
ConventionRecord(d, sel) ==
    LET all == [uuid |-> Str(UuidText[d.uuid]),
                schema_url |-> Str(SchemaUrlText[d.schema_url]),
                spec_url |-> Str(SpecUrlText[d.spec_url]),
                name |-> Str(NameText[d.name]),
                description |-> Str(DescriptionText[d.description])]
    IN Obj([f \in sel |-> all[f]])

AllFields == {"uuid", "schema_url", "spec_url", "name", "description"}

\* Records of a zarr_conventions list: CanBeEither in full and by each single
\* identifier, MustBeNested in full, and a record without any identifier.
ConventionRecords ==
    {ConventionRecord(CanBeEither.DEFINITION, AllFields),
     ConventionRecord(CanBeEither.DEFINITION, {"uuid"}),
     ConventionRecord(CanBeEither.DEFINITION, {"schema_url"}),
     ConventionRecord(CanBeEither.DEFINITION, {"spec_url", "name"}),
     ConventionRecord(MustBeNested.DEFINITION, AllFields),
     ConventionRecord(MustBeNested.DEFINITION, {"name"})}

ZarrConventionsParts ==
    {<<>>} \cup
    {ZarrConventions_KEY :> Arr(lst) :
        lst \in UNION {[1..n -> ConventionRecords] : n \in 0..MaxConventions}}

\* What the key "can_be_either" may hold.
NestedValues ==
    {Null, Num(5), Arr(<<Num(5), Num(6)>>), Obj(<<>>),
     Obj([foo |-> Num(5)]), Obj([foo |-> Num(5), bar |-> Num(6)]),
     Obj([foo |-> Num(5), bar |-> Num(300)])}

NestedParts == {<<>>} \cup {CanBeEither.KEY :> v : v \in NestedValues}

PrefixedParts ==
    {<<>>, "can_be_either:foo" :> Num(7), "can_be_either:bar" :> Num(6),
     ("can_be_either:foo" :> Num(7)) @@ ("can_be_either:bar" :> Num(6))}

\* The other entries of the example of attributes.rs.
OtherParts ==
    {<<>>,
     ("must_be_nested" :> Obj([a |-> Num(1), b |-> Num(2)]))
        @@ ("must_be_prefixed:x" :> Num(3)) @@ ("must_be_prefixed:y" :> Num(4))
        @@ ("other_key" :> Str("other_value"))}

AttributeMaps ==
    {zc @@ n @@ p @@ o :
        zc \in ZarrConventionsParts, n \in NestedParts,
        p \in PrefixedParts, o \in OtherParts}

-----------------------------------------------------------------------------
(* The protocol and the parser as operations on one attribute map *)

AttrInit ==
    /\ RegInit
    /\ BldIdle /\ EncIdle /\ ConvIdle
    /\ attributes \in AttributeMaps
    /\ parser = None
    /\ handed = None
    /\ out = NoOut

Record(op, T, r) ==
    /\ handed' = r.handed
    /\ out' = [op |-> op, T |-> T.name, ret |-> r.ret]

\* T::from_attributes_nested(&attributes)
FromAttributesNested(T) ==
    /\ T.nested
    /\ Record("from_attributes_nested", T, from_attributes_nested(T, attributes))
    /\ UNCHANGED <<attributes, parser>>
    /\ UNCHANGED <<regvars, bldvars, encoded, convvars>>

\* T::from_attributes_prefixed(&attributes)
FromAttributesPrefixed(T) ==
    /\ T.prefixed
    /\ Record("from_attributes_prefixed", T, from_attributes_prefixed(T, attributes))
    /\ UNCHANGED <<attributes, parser>>
    /\ UNCHANGED <<regvars, bldvars, encoded, convvars>>

\* T::from_attributes(&attributes), for T: NestedRepr + PrefixedRepr
FromAttributes(T) ==
    /\ T.nested /\ T.prefixed
    /\ Record("from_attributes", T, from_attributes(T, attributes))
    /\ UNCHANGED <<attributes, parser>>
    /\ UNCHANGED <<regvars, bldvars, encoded, convvars>>

\* serde_json::from_value::<AttributesParser>(attributes)
DeserializeParser ==
    /\ parser = None
    /\ parser' = Some(AttributesParser_deserialize(attributes))
    /\ handed' = None
    /\ out' = NoOut
    /\ UNCHANGED attributes
    /\ UNCHANGED <<regvars, bldvars, encoded, convvars>>

Parsed == parser.some /\ parser.v.ok

\* parser.parse_nested::<T>()
ParseNested(T) ==
    /\ Parsed
    /\ T.nested
    /\ Record("parse_nested", T, parse_nested(T, parser.v.v))
    /\ UNCHANGED <<attributes, parser>>
    /\ UNCHANGED <<regvars, bldvars, encoded, convvars>>

\* parser.parse_prefixed::<T>()
ParsePrefixed(T) ==
    /\ Parsed
    /\ T.prefixed
    /\ Record("parse_prefixed", T, parse_prefixed(T, parser.v.v))
    /\ UNCHANGED <<attributes, parser>>
    /\ UNCHANGED <<regvars, bldvars, encoded, convvars>>

\* parser.parse::<T>()
Parse(T) ==
    /\ Parsed
    /\ T.nested /\ T.prefixed
    /\ Record("parse", T, parse(T, parser.v.v))
    /\ UNCHANGED <<attributes, parser>>
    /\ UNCHANGED <<regvars, bldvars, encoded, convvars>>

\* ZarrConventions::from_attributes(&attributes)
ZarrConventionsFromAttributes ==
    /\ handed' = None
    /\ out' = [op |-> "ZarrConventions::from_attributes",
               ret |-> ZarrConventions_from_attributes(attributes)]
    /\ UNCHANGED <<attributes, parser>>
    /\ UNCHANGED <<regvars, bldvars, encoded, convvars>>

\* parser.in_use::<T>()
InUse(T) ==
    /\ Parsed
    /\ handed' = None
    /\ out' = [op |-> "in_use", T |-> T.name,
               ret |-> in_use(T, parser.v.v.zarr_conventions)]
    /\ UNCHANGED <<attributes, parser>>
    /\ UNCHANGED <<regvars, bldvars, encoded, convvars>>

AttrNext ==
    \/ \E T \in Types : FromAttributesNested(T)
    \/ \E T \in Types : FromAttributesPrefixed(T)
    \/ \E T \in Types : FromAttributes(T)
    \/ DeserializeParser
    \/ \E T \in Types : ParseNested(T)
    \/ \E T \in Types : ParsePrefixed(T)
    \/ \E T \in Types : Parse(T)
    \/ ZarrConventionsFromAttributes
    \/ \E T \in Types : InUse(T)

AttrSpec == AttrInit /\ [][AttrNext]_vars

-----------------------------------------------------------------------------
(* Representation protocol and parser claims *)

TypeNamed(n) == CHOOSE T \in Types : T.name = n

\* The field names of the convention types, and the empty name.
FieldNames == {"foo", "bar", "a", "b", "x", "y", ""}

\* The fields of T that attrs holds in prefixed form.
PrefixedFields(T, attrs) == {f \in FieldNames : (T.PREFIX \o f) \in DOMAIN attrs}

\* The combined operation ran on a map whose nested key holds a record.
CombinedOnRecord ==
    /\ out.op = "from_attributes"
    /\ TypeNamed(out.T).KEY \in DOMAIN attributes
    /\ attributes[TypeNamed(out.T).KEY].tag = "obj"

\* The nested record and the prefixed fields merged, the nested record's value
\* taken for a field that both hold.
MergedNestedFirst(T, attrs) ==
    LET R == attrs[T.KEY].map
    IN Obj([f \in DOMAIN R \cup PrefixedFields(T, attrs) |->
              IF f \in DOMAIN R THEN R[f] ELSE attrs[T.PREFIX \o f]])

\* C6 (as claimed): combined decoding of a map whose nested key holds a record
\* decodes the merge of the record and the prefixed fields in which the nested
\* record's value wins for every field that both hold.
C6_NestedWinsOnCollision ==
    CombinedOnRecord =>
        LET T == TypeNamed(out.T) IN
        /\ handed = Some(MergedNestedFirst(T, attributes))
        /\ out.ret = from_value(T, MergedNestedFirst(T, attributes))

\* C7: combined decoding of a map whose nested key holds a record hands the decoder
\* a record with the fields of both: a field held in prefixed form only has the
\* prefixed key's value, a field held by the nested record only has the record's
\* value; nested {foo: 5} with "can_be_either:bar" = 6 decodes as {foo: 5, bar: 6}.
C7_UnionOfNestedAndPrefixed ==
    CombinedOnRecord =>
        LET T == TypeNamed(out.T)
            R == attributes[T.KEY].map
            PF == PrefixedFields(T, attributes)
        IN /\ handed.some
           /\ handed.v.tag = "obj"
           /\ DOMAIN handed.v.map = DOMAIN R \cup PF
           /\ \A f \in PF \ DOMAIN R : handed.v.map[f] = attributes[T.PREFIX \o f]
           /\ \A f \in DOMAIN R \ PF : handed.v.map[f] = R[f]
           /\ (R = [foo |-> Num(5)] /\ PF = {"bar"}
                    /\ attributes["can_be_either:bar"] = Num(6)) =>
                 out.ret = Ok([foo |-> 5, bar |-> 6])

\* The case of test_attributes_parser_all: {foo: 5} nested, bar = 6 prefixed.
C7_Witness ==
    /\ CombinedOnRecord
    /\ attributes["can_be_either"] = Obj([foo |-> Num(5)])
    /\ "can_be_either:bar" \in DOMAIN attributes
    /\ "can_be_either:foo" \notin DOMAIN attributes
    /\ out.ret = Ok([foo |-> 5, bar |-> 6])

\* attrs without the keys that carry T's prefix.
WithoutPrefixed(T, attrs) ==
    [k \in {x \in DOMAIN attrs : ~strip_prefix(x, T.PREFIX).some} |-> attrs[k]]

\* C8: combined decoding of a map whose nested key holds a value that is not a
\* record decodes that value alone: the result is the one obtained with the
\* prefixed keys removed, and with any other choice of prefixed keys.
C8_NonRecordNestedAlone ==
    (/\ out.op = "from_attributes"
     /\ TypeNamed(out.T).KEY \in DOMAIN attributes
     /\ attributes[TypeNamed(out.T).KEY].tag # "obj") =>
        LET T == TypeNamed(out.T)
            bare == WithoutPrefixed(T, attributes)
        IN /\ handed = Some(attributes[T.KEY])
           /\ out.ret = from_value(T, attributes[T.KEY])
           /\ \A p \in PrefixedParts : from_attributes(T, p @@ bare).ret = out.ret

\* An array under the nested key decoded, with a prefixed key in the map.
C8_Witness ==
    /\ out.op = "from_attributes"
    /\ "can_be_either" \in DOMAIN attributes
    /\ attributes["can_be_either"] = Arr(<<Num(5), Num(6)>>)
    /\ "can_be_either:foo" \in DOMAIN attributes
    /\ out.ret = Ok([foo |-> 5, bar |-> 6])

\* The record R in prefixed form, added to the map base.
PrefixedForm(T, R, base) ==
    [k \in DOMAIN base \cup {T.PREFIX \o f : f \in DOMAIN R} |->
        IF k \in DOMAIN base THEN base[k]
        ELSE R[CHOOSE f \in DOMAIN R : T.PREFIX \o f = k]]

\* C9: combined decoding of a map without the nested key returns what prefixed
\* decoding of that map returns, from the record of the prefixed fields; and a map
\* holding a record in nested form only decodes (combined) to the same result as
\* the map holding that record in prefixed form only.
C9_FallbackToPrefixed ==
    /\ (out.op = "from_attributes" /\ TypeNamed(out.T).KEY \notin DOMAIN attributes) =>
          LET T == TypeNamed(out.T) IN
          /\ handed = Some(Obj([f \in PrefixedFields(T, attributes) |->
                                    attributes[T.PREFIX \o f]]))
          /\ out.ret = from_attributes_prefixed(T, attributes).ret
    /\ (CombinedOnRecord /\ PrefixedFields(TypeNamed(out.T), attributes) = {}) =>
          LET T == TypeNamed(out.T)
              R == attributes[T.KEY].map
              base == [k \in DOMAIN attributes \ {T.KEY} |-> attributes[k]]
          IN out.ret = from_attributes(T, PrefixedForm(T, R, base)).ret

\* A map with the prefixed form only decoded by the combined operation.
C9_Witness ==
    /\ out.op = "from_attributes"
    /\ "can_be_either" \notin DOMAIN attributes
    /\ "can_be_either:foo" \in DOMAIN attributes
    /\ out.ret = Ok([foo |-> 7, bar |-> 6])

\* The zarr_conventions list of attrs holds a record with one of T's identifiers.
ListedIn(T, attrs) ==
    /\ ZarrConventions_KEY \in DOMAIN attrs
    /\ \E i \in 1..Len(attrs[ZarrConventions_KEY].items) :
          LET m == attrs[ZarrConventions_KEY].items[i].map IN
          \/ "uuid" \in DOMAIN m /\ m["uuid"] = Str(UuidText[T.DEFINITION.uuid])
          \/ "schema_url" \in DOMAIN m
                /\ m["schema_url"] = Str(SchemaUrlText[T.DEFINITION.schema_url])
          \/ "spec_url" \in DOMAIN m
                /\ m["spec_url"] = Str(SpecUrlText[T.DEFINITION.spec_url])

\* C10: on a parsed map whose zarr_conventions list holds none of T's identifiers,
\* or that has no zarr_conventions key, parse_nested, parse_prefixed and parse
\* return Ok(None) and decode nothing.
C10_NotInUseIsAbsent ==
    (/\ out.op \in {"parse_nested", "parse_prefixed", "parse"}
     /\ ~ListedIn(TypeNamed(out.T), attributes)) =>
        /\ out.ret = Ok(None)
        /\ handed = None

\* parse::<CanBeEither>() returned None on a map that lists another convention
\* and holds CanBeEither's nested key and prefixed keys.
C10_Witness ==
    /\ out.op = "parse"
    /\ out.T = "CanBeEither"
    /\ ZarrConventions_KEY \in DOMAIN attributes
    /\ Len(attributes[ZarrConventions_KEY].items) = 1
    /\ "can_be_either" \in DOMAIN attributes
    /\ attributes["can_be_either"] = Obj([foo |-> Num(5), bar |-> Num(6)])
    /\ "can_be_either:foo" \in DOMAIN attributes
    /\ out.ret = Ok(None)

\* C11: on a parsed map whose zarr_conventions list holds one of T's identifiers,
\* parse_nested::<T>() never returns Ok(None): it returns the key-not-found error
\* when T's nested key is missing, an error when the value under the key does not
\* decode, and otherwise Ok(Some(v)) with v the value decoded from under the key.
C11_InUseNeverAbsent ==
    (/\ out.op = "parse_nested"
     /\ ListedIn(TypeNamed(out.T), attributes)) =>
        LET T == TypeNamed(out.T) IN
        /\ out.ret # Ok(None)
        /\ T.KEY \notin DOMAIN attributes =>
              out.ret = Err("key not found") /\ handed = None
        /\ T.KEY \in DOMAIN attributes =>
              LET d == from_value(T, attributes[T.KEY]) IN
              /\ handed = Some(attributes[T.KEY])
              /\ IF d.ok THEN out.ret = Ok(Some(d.v)) ELSE ~out.ret.ok

\* parse_nested::<CanBeEither>() on a map that lists CanBeEither and holds its
\* prefixed keys but not its nested key: the key-not-found error.
C11_Witness ==
    /\ out.op = "parse_nested"
    /\ out.T = "CanBeEither"
    /\ ListedIn(CanBeEither, attributes)
    /\ "can_be_either" \notin DOMAIN attributes
    /\ "can_be_either:foo" \in DOMAIN attributes
    /\ out.ret = Err("key not found")

\* The text k starts with the text p.
StartsWith(k, p) == Len(k) >= Len(p) /\ SubSeq(k, 1, Len(p)) = p

\* C23: prefixed decoding hands the decoder a record that has, for each key of the
\* map that starts with PREFIX, one field named by the rest of the key and holding
\* the key's value, and no other field; when no key starts with PREFIX the record
\* is empty and it is decoded all the same, never reported as key-not-found.
C23_PrefixedRecord ==
    out.op = "from_attributes_prefixed" =>
        LET T == TypeNamed(out.T)
            hits == {k \in DOMAIN attributes : StartsWith(k, T.PREFIX)}
        IN /\ handed.some
           /\ handed.v.tag = "obj"
           /\ Cardinality(DOMAIN handed.v.map) = Cardinality(hits)
           /\ \A k \in hits :
                 \E f \in DOMAIN handed.v.map :
                    k = T.PREFIX \o f /\ handed.v.map[f] = attributes[k]
           /\ \A f \in DOMAIN handed.v.map : (T.PREFIX \o f) \in hits
           /\ out.ret = from_value(T, handed.v)
           /\ hits = {} =>
                 /\ handed = Some([tag |-> "obj", map |-> <<>>])
                 /\ out.ret # Err("key not found")

\* Prefixed decoding of CanBeEither on a map that holds "can_be_either:foo", the
\* nested key and the keys of other conventions: the record handed over is {foo}.
C23_Witness ==
    /\ out.op = "from_attributes_prefixed"
    /\ out.T = "CanBeEither"
    /\ "can_be_either" \in DOMAIN attributes
    /\ "must_be_prefixed:x" \in DOMAIN attributes
    /\ "can_be_either:foo" \in DOMAIN attributes
    /\ "can_be_either:bar" \notin DOMAIN attributes
    /\ handed = Some([tag |-> "obj", map |-> [foo |-> attributes["can_be_either:foo"]]])
    /\ ~out.ret.ok

-----------------------------------------------------------------------------
(* Encoding: traits.rs *)

\* serde_json::to_value of #[derive(Serialize)], by the shape of T: a struct of
\* u8 fields gives the object of the fields, each a JSON number; a newtype struct
\* gives the number, a tuple struct the array, a unit struct null; a struct with
\* a map keyed by something other than a string does not serialize.
to_value(T, V) ==
    CASE T.shape = "struct" -> Ok(Obj([f \in Range(T.fields) |-> Num(V[f])]))
      [] T.shape = "newtype" -> Ok(Num(V[T.fields[1]]))
      [] T.shape = "tuple" -> Ok(Arr([i \in 1..Len(T.fields) |-> Num(V[T.fields[i]])]))
      [] T.shape = "unit" -> Ok(Null)
      [] T.shape = "failing" -> Err("key must be a string")

\* serde_json::Map::insert: the value is stored under the key, replacing
\* the value that was there.
MapInsert(m, k, v) == (k :> v) @@ m

\* to_attributes_nested keeping the value the key already holds.
to_attributes_nested_keep(T, V, output) ==
    LET value == to_value(T, V)
    IN IF ~value.ok THEN [ret |-> value, output |-> output]
       ELSE [ret |-> Ok(<<>>),
             output |-> IF T.KEY \in DOMAIN output THEN output
                        ELSE MapInsert(output, T.KEY, value.v)]

\* to_attributes_nested writing into a fresh map.
to_attributes_nested_fresh(T, V, output) ==
    LET value == to_value(T, V)
    IN IF ~value.ok THEN [ret |-> value, output |-> output]
       ELSE [ret |-> Ok(<<>>), output |-> T.KEY :> value.v]

\* NestedRepr::to_attributes_nested: the result and the map as it leaves it. A
\* value that does not serialize is an error and the map is left as it was.
to_attributes_nested(T, V, output) ==
    LET value == to_value(T, V)
    IN IF ~value.ok THEN [ret |-> value, output |-> output]
       ELSE [ret |-> Ok(<<>>), output |-> MapInsert(output, T.KEY, value.v)]

\* to_attributes_prefixed writing the fields under their bare names.
to_attributes_prefixed_bare(T, V, output) ==
    LET value == to_value(T, V)
    IN IF ~value.ok THEN [ret |-> value, output |-> output]
       ELSE IF value.v.tag # "obj"
       THEN [ret |-> Err("Prefixed representation must serialize to a JSON object"),
             output |-> output]
       ELSE [ret |-> Ok(<<>>),
             output |-> [k \in DOMAIN output \cup DOMAIN value.v.map |->
                            IF k \in DOMAIN value.v.map THEN value.v.map[k]
                            ELSE output[k]]]

\* to_attributes_prefixed storing a value that is not an object under the prefix.
to_attributes_prefixed_any_shape(T, V, output) ==
    LET value == to_value(T, V)
    IN IF ~value.ok THEN [ret |-> value, output |-> output]
       ELSE IF value.v.tag # "obj"
       THEN [ret |-> Ok(<<>>), output |-> MapInsert(output, T.PREFIX, value.v)]
       ELSE LET keys == {T.PREFIX \o f : f \in DOMAIN value.v.map}
            IN [ret |-> Ok(<<>>),
                output |-> [k \in DOMAIN output \cup keys |->
                               IF k \in keys
                               THEN value.v.map[CHOOSE f \in DOMAIN value.v.map :
                                                      T.PREFIX \o f = k]
                               ELSE output[k]]]

\* PrefixedRepr::to_attributes_prefixed: every field of the serialized object is
\* inserted under PREFIX followed by its name; a value that does not serialize, or
\* that serializes to something other than an object, is an error and the map is
\* left as it was.
to_attributes_prefixed(T, V, output) ==
    LET value == to_value(T, V)
    IN IF ~value.ok THEN [ret |-> value, output |-> output]
       ELSE IF value.v.tag = "obj"
       THEN LET keys == {T.PREFIX \o f : f \in DOMAIN value.v.map}
            IN [ret |-> Ok(<<>>),
                output |-> [k \in DOMAIN output \cup keys |->
                               IF k \in keys
                               THEN value.v.map[CHOOSE f \in DOMAIN value.v.map :
                                                      T.PREFIX \o f = k]
                               ELSE output[k]]]
       ELSE [ret |-> Err("Prefixed representation must serialize to a JSON object"),
             output |-> output]

\* A convention type whose nested key lies under the prefix of CanBeEither.
UnderPrefix ==
    [name |-> "UnderPrefix",
     DEFINITION |-> ConventionDefinition(6, 6, 6, 6, 6),
     nested |-> TRUE, KEY |-> "can_be_either:foo",
     prefixed |-> FALSE, PREFIX |-> "",
     fields |-> <<"c">>, shape |-> "struct"]

\* struct ScalarValue(u8), impl PrefixedRepr: serializes to a number.
ScalarValue ==
    [name |-> "ScalarValue",
     DEFINITION |-> ConventionDefinition(4, 4, 4, 4, 4),
     nested |-> FALSE, KEY |-> "",
     prefixed |-> TRUE, PREFIX |-> "scalar_value:",
     fields |-> <<"0">>, shape |-> "newtype"]

\* struct ArrayValue(u8, u8), impl PrefixedRepr: serializes to an array.
ArrayValue ==
    [name |-> "ArrayValue",
     DEFINITION |-> ConventionDefinition(7, 7, 7, 7, 7),
     nested |-> FALSE, KEY |-> "",
     prefixed |-> TRUE, PREFIX |-> "array_value:",
     fields |-> <<"0", "1">>, shape |-> "tuple"]

\* struct UnitValue, impl PrefixedRepr: serializes to null.
UnitValue ==
    [name |-> "UnitValue",
     DEFINITION |-> ConventionDefinition(8, 8, 8, 8, 8),
     nested |-> FALSE, KEY |-> "",
     prefixed |-> TRUE, PREFIX |-> "unit_value:",
     fields |-> <<>>, shape |-> "unit"]

\* struct Unserializable { m: BTreeMap<(u8, u8), u8> }, impl NestedRepr and
\* PrefixedRepr: serde_json::to_value returns an error.
Unserializable ==
    [name |-> "Unserializable",
     DEFINITION |-> ConventionDefinition(5, 5, 5, 5, 5),
     nested |-> TRUE, KEY |-> "unserializable",
     prefixed |-> TRUE, PREFIX |-> "unserializable:",
     fields |-> <<"m">>, shape |-> "failing"]

\* The types whose values do not serialize to an object.
NonRecordTypes == {ScalarValue, ArrayValue, UnitValue}

EncTypes == Types \cup {UnderPrefix} \cup NonRecordTypes

EncTypeNamed(n) == CHOOSE T \in EncTypes : T.name = n

\* The values of the convention types that are encoded.
Values(T) ==
    CASE T.name = "MustBeNested" -> {[a |-> 1, b |-> 2]}
      [] T.name = "MustBePrefixed" -> {[x |-> 3, y |-> 4]}
      [] T.name = "CanBeEither" -> {[foo |-> 5, bar |-> 6], [foo |-> 0, bar |-> 255]}
      [] T.name = "UnderPrefix" -> {[c |-> 1]}
      [] T.name = "ScalarValue" -> {[f \in {"0"} |-> 5]}
      [] T.name = "ArrayValue" -> {[f \in {"0", "1"} |-> 5]}
      [] T.name = "UnitValue" -> {<<>>}
      [] T.name = "Unserializable" -> {[m |-> 0]}

\* The maps that are encoded into: what the keys of CanBeEither may hold, with and
\* without the other entries of the example.
EncodeInto ==
    {n @@ p @@ o : n \in NestedParts, p \in PrefixedParts, o \in OtherParts}

EncInit ==
    /\ RegInit
    /\ BldIdle /\ EncIdle /\ ConvIdle
    /\ attributes \in EncodeInto
    /\ parser = None
    /\ handed = None
    /\ out = NoOut

Encode(op, T, V, r) ==
    /\ Len(encoded) < MaxEncodes
    /\ attributes' = r.output
    /\ encoded' = Append(encoded, [op |-> op, T |-> T.name, V |-> V,
                                   before |-> attributes])
    /\ handed' = None
    /\ out' = [op |-> op, T |-> T.name, ret |-> r.ret]
    /\ UNCHANGED parser
    /\ UNCHANGED <<regvars, bldvars, convvars>>

\* value.to_attributes_nested(&mut attributes)
ToAttributesNested(T, V) ==
    /\ T.nested
    /\ Encode("to_attributes_nested", T, V, to_attributes_nested(T, V, attributes))

\* value.to_attributes_prefixed(&mut attributes)
ToAttributesPrefixed(T, V) ==
    /\ T.prefixed
    /\ Encode("to_attributes_prefixed", T, V, to_attributes_prefixed(T, V, attributes))

EncNext ==
    \/ \E T \in EncTypes : \E V \in Values(T) : ToAttributesNested(T, V)
    \/ \E T \in EncTypes : \E V \in Values(T) : ToAttributesPrefixed(T, V)
    \/ \E T \in EncTypes : FromAttributesNested(T)
    \/ \E T \in EncTypes : FromAttributesPrefixed(T)
    \/ \E T \in EncTypes : FromAttributes(T)

EncSpec == EncInit /\ [][EncNext]_vars

-----------------------------------------------------------------------------
(* Encoding claims *)

\* The last to_attributes_* call.
LastEncoded == encoded[Len(encoded)]

\* The map holds, under key k, the number n.
HoldsNumber(k, n) ==
    /\ k \in DOMAIN attributes
    /\ attributes[k] = [tag |-> "num", n |-> n]

\* C19: after value V of type T was encoded in nested form into a map, the map
\* holds under T's KEY the record of V's fields, whatever it held there before,
\* every other key is there with the value it had and no key was added, and
\* from_attributes_nested::<T> on the map returns V.
C19_NestedRoundTrip ==
    (Len(encoded) > 0 /\ LastEncoded.op = "to_attributes_nested") =>
        LET e == LastEncoded
            T == EncTypeNamed(e.T)
        IN /\ T.KEY \in DOMAIN attributes
           /\ attributes[T.KEY].tag = "obj"
           /\ DOMAIN attributes[T.KEY].map = DOMAIN e.V
           /\ \A f \in DOMAIN e.V :
                 attributes[T.KEY].map[f] = [tag |-> "num", n |-> e.V[f]]
           /\ DOMAIN attributes = DOMAIN e.before \cup {T.KEY}
           /\ \A k \in DOMAIN e.before \ {T.KEY} : attributes[k] = e.before[k]
           /\ (out.op = "from_attributes_nested" /\ out.T = e.T) =>
                 out.ret = Ok(e.V)

\* {foo: 0, bar: 255} was encoded over a nested key that held another value, and
\* nested decoding returned it.
C19_Witness ==
    /\ Len(encoded) > 0
    /\ LastEncoded.op = "to_attributes_nested"
    /\ LastEncoded.T = "CanBeEither"
    /\ LastEncoded.V = [foo |-> 0, bar |-> 255]
    /\ "can_be_either" \in DOMAIN LastEncoded.before
    /\ LastEncoded.before["can_be_either"] = Num(5)
    /\ "other_key" \in DOMAIN attributes
    /\ out.op = "from_attributes_nested"
    /\ out.T = "CanBeEither"
    /\ out.ret = Ok([foo |-> 0, bar |-> 255])

\* C20: after the record-shaped value V of type T was encoded in prefixed form
\* into a map, the map holds every field of V under PREFIX followed by the field's
\* name, and from_attributes_prefixed::<T> on the map returns V.
C20_PrefixedRoundTrip ==
    (/\ Len(encoded) > 0
     /\ LastEncoded.op = "to_attributes_prefixed"
     /\ EncTypeNamed(LastEncoded.T).shape = "struct") =>
        LET e == LastEncoded
            T == EncTypeNamed(e.T)
        IN /\ out.op = "to_attributes_prefixed" => out.ret.ok
           /\ \A f \in DOMAIN e.V : HoldsNumber(T.PREFIX \o f, e.V[f])
           /\ (out.op = "from_attributes_prefixed" /\ out.T = e.T) =>
                 out.ret = Ok(e.V)

\* {foo: 5, bar: 6} was encoded in prefixed form into a map that held
\* "can_be_either:foo" = 7 and a nested key, and prefixed decoding returned it.
C20_Witness ==
    /\ Len(encoded) > 0
    /\ LastEncoded.op = "to_attributes_prefixed"
    /\ LastEncoded.T = "CanBeEither"
    /\ LastEncoded.V = [foo |-> 5, bar |-> 6]
    /\ "can_be_either:foo" \in DOMAIN LastEncoded.before
    /\ LastEncoded.before["can_be_either:foo"] = Num(7)
    /\ "can_be_either" \in DOMAIN attributes
    /\ out.op = "from_attributes_prefixed"
    /\ out.T = "CanBeEither"
    /\ out.ret = Ok([foo |-> 5, bar |-> 6])

NotAnObject == Err("Prefixed representation must serialize to a JSON object")

\* C21: prefixed encoding of a value whose type serializes to a number, an array
\* or null returns the not-an-object error and leaves the map as it was; prefixed
\* encoding of a record-shaped value returns Ok and writes one key per field,
\* PREFIX followed by the field's name, holding the field's value, and changes no
\* other key.
C21_PrefixedNeedsRecord ==
    (Len(encoded) > 0 /\ out.op = "to_attributes_prefixed") =>
        LET e == LastEncoded
            T == EncTypeNamed(e.T)
            written == {T.PREFIX \o f : f \in DOMAIN e.V}
        IN /\ T \in NonRecordTypes =>
                 /\ out.ret = NotAnObject
                 /\ attributes = e.before
           /\ T.shape = "struct" =>
                 /\ out.ret.ok
                 /\ Cardinality(written) = Len(T.fields)
                 /\ DOMAIN attributes = DOMAIN e.before \cup written
                 /\ \A f \in DOMAIN e.V : HoldsNumber(T.PREFIX \o f, e.V[f])
                 /\ \A k \in DOMAIN e.before \ written : attributes[k] = e.before[k]

\* A number was encoded in prefixed form into a map that holds other entries: the
\* not-an-object error, and no key under the prefix.
C21_Witness ==
    /\ Len(encoded) > 0
    /\ out.op = "to_attributes_prefixed"
    /\ out.T = "ScalarValue"
    /\ out.ret = NotAnObject
    /\ "other_key" \in DOMAIN attributes
    /\ \A k \in DOMAIN attributes : ~StartsWith(k, ScalarValue.PREFIX)

\* A and B are different convention types whose nested keys differ and whose
\* prefixes differ.
DifferentKeyAndPrefix(A, B) ==
    /\ A.name # B.name
    /\ (A.nested /\ B.nested) => A.KEY # B.KEY
    /\ (A.prefixed /\ B.prefixed) => A.PREFIX # B.PREFIX

\* What the decode operation op of type A returns on the map attrs.
DecodeOf(op, A, attrs) ==
    CASE op = "from_attributes_nested" -> from_attributes_nested(A, attrs).ret
      [] op = "from_attributes_prefixed" -> from_attributes_prefixed(A, attrs).ret
      [] op = "from_attributes" -> from_attributes(A, attrs).ret

DecodeOps == {"from_attributes_nested", "from_attributes_prefixed", "from_attributes"}

\* C13 (as claimed): when a value of B has just been encoded into the map and A is
\* a different type with a different nested key and a different prefix, a decode
\* of A returns what it returns on the map as it was before the encoding.
C13_NoCollision ==
    (Len(encoded) > 0 /\ out.op \in DecodeOps) =>
        LET B == EncTypeNamed(LastEncoded.T)
            A == EncTypeNamed(out.T)
        IN DifferentKeyAndPrefix(A, B) =>
              out.ret = DecodeOf(out.op, A, LastEncoded.before)

\* The keys an encoding of B in the form of op writes.
WrittenKeys(op, B) ==
    IF op = "to_attributes_nested" THEN {B.KEY}
    ELSE {B.PREFIX \o B.fields[i] : i \in 1..Len(B.fields)}

\* The key k is one the decode operations of A read.
ReadBy(A, k) ==
    \/ A.nested /\ k = A.KEY
    \/ A.prefixed /\ strip_prefix(k, A.PREFIX).some

\* C13 (amended): when a value of B has just been encoded into the map and none of
\* the keys the encoding wrote is A's nested key or starts with A's prefix, a
\* decode of A returns what it returns on the map as it was before the encoding.
C13_NoCollisionOnDisjointKeys ==
    (Len(encoded) > 0 /\ out.op \in DecodeOps) =>
        LET B == EncTypeNamed(LastEncoded.T)
            A == EncTypeNamed(out.T)
        IN (\A k \in WrittenKeys(LastEncoded.op, B) : ~ReadBy(A, k)) =>
              out.ret = DecodeOf(out.op, A, LastEncoded.before)

\* MustBePrefixed was encoded into a map from which CanBeEither decodes, and the
\* combined decoding of CanBeEither returned its value.
C13_Witness ==
    /\ Len(encoded) > 0
    /\ LastEncoded.T = "MustBePrefixed"
    /\ LastEncoded.op = "to_attributes_prefixed"
    /\ "must_be_prefixed:x" \notin DOMAIN LastEncoded.before
    /\ out.op = "from_attributes"
    /\ out.T = "CanBeEither"
    /\ out.ret = Ok([foo |-> 5, bar |-> 6])

-----------------------------------------------------------------------------
(* Convention and ConventionBuilder: convention.rs, lib.rs *)

\* ConventionBuilder::default()
ConventionBuilder_default ==
    [uuid |-> None, schema_url |-> None, spec_url |-> None,
     name |-> None, description |-> None]

\* The fluent setters of ConventionBuilder.
ConventionBuilder_uuid(b, u) == [b EXCEPT !.uuid = Some(u)]
ConventionBuilder_schema_url(b, u) == [b EXCEPT !.schema_url = Some(u)]
ConventionBuilder_spec_url(b, u) == [b EXCEPT !.spec_url = Some(u)]
ConventionBuilder_name(b, n) == [b EXCEPT !.name = Some(n)]
ConventionBuilder_description(b, d) == [b EXCEPT !.description = Some(d)]

\* unreachable!(): the call panics.
Unreachable == [kind |-> "unreachable"]

\* Convention::id
Convention_id(c) ==
    IF c.uuid.some THEN IdUuid(c.uuid.v)
    ELSE IF c.schema_url.some THEN IdSchemaUrl(c.schema_url.v)
    ELSE IF c.spec_url.some THEN IdSpecUrl(c.spec_url.v)
    ELSE Unreachable

\* The conversion with the schema url tried before the uuid.
ConventionId_from_schema_first(c) ==
    IF c.schema_url.some THEN IdSchemaUrl(c.schema_url.v)
    ELSE IF c.uuid.some THEN IdUuid(c.uuid.v)
    ELSE IF c.spec_url.some THEN IdSpecUrl(c.spec_url.v)
    ELSE Unreachable

\* From<Convention> for ConventionId
ConventionId_from(c) ==
    IF c.uuid.some THEN IdUuid(c.uuid.v)
    ELSE IF c.schema_url.some THEN IdSchemaUrl(c.schema_url.v)
    ELSE IF c.spec_url.some THEN IdSpecUrl(c.spec_url.v)
    ELSE Unreachable

\* The state after Convention::builder().
ConvInit ==
    /\ RegInit
    /\ AttrIdle /\ BldIdle /\ EncIdle
    /\ cb = Some(ConventionBuilder_default)
    /\ calls = <<>>
    /\ conv = None

\* A setter call on the builder cb: cb is replaced by the builder the setter returns.
Setter(field, v, b) ==
    /\ Len(calls) < MaxSetterCalls
    /\ cb' = Some(b)
    /\ calls' = Append(calls, [field |-> field, v |-> v])
    /\ UNCHANGED conv
    /\ UNCHANGED <<regvars, attrvars, bldvars, encoded>>

SetUuid(u) ==
    /\ cb.some
    /\ Setter("uuid", u, ConventionBuilder_uuid(cb.v, u))

SetSchemaUrl(u) ==
    /\ cb.some
    /\ Setter("schema_url", u, ConventionBuilder_schema_url(cb.v, u))

SetSpecUrl(u) ==
    /\ cb.some
    /\ Setter("spec_url", u, ConventionBuilder_spec_url(cb.v, u))

SetName(n) ==
    /\ cb.some
    /\ Setter("name", n, ConventionBuilder_name(cb.v, n))

SetDescription(d) ==
    /\ cb.some
    /\ Setter("description", d, ConventionBuilder_description(cb.v, d))

\* cb.build(): the builder is moved into the call.
BuildConvention ==
    /\ cb.some
    /\ conv' = Some(ConventionBuilder_build(cb.v))
    /\ out' = [op |-> "ConventionBuilder::build", ret |-> ConventionBuilder_build(cb.v)]
    /\ cb' = None
    /\ UNCHANGED <<calls, attributes, parser, handed>>
    /\ UNCHANGED <<regvars, bldvars, encoded>>

\* serde_json::from_value::<Convention>(rec)
DeserializeConvention(rec) ==
    /\ conv' = Some(Convention_deserialize(rec))
    /\ out' = [op |-> "Convention::deserialize", rec |-> rec,
               ret |-> Convention_deserialize(rec)]
    /\ UNCHANGED <<cb, calls, attributes, parser, handed>>
    /\ UNCHANGED <<regvars, bldvars, encoded>>

\* conv.id()
Id ==
    /\ conv.some /\ conv.v.ok
    /\ out' = [op |-> "Convention::id", ret |-> Convention_id(conv.v.v)]
    /\ UNCHANGED <<attributes, parser, handed>>
    /\ UNCHANGED <<regvars, bldvars, encoded, convvars>>

\* ConventionId::from(conv)
IntoConventionId ==
    /\ conv.some /\ conv.v.ok
    /\ out' = [op |-> "ConventionId::from", ret |-> ConventionId_from(conv.v.v)]
    /\ UNCHANGED <<attributes, parser, handed>>
    /\ UNCHANGED <<regvars, bldvars, encoded, convvars>>

\* The identifiers and texts the setters are called with.
SetterUuids == {1, 2}
SetterUrls == {1, 2}
SetterNames == {NameText[1], NameText[2]}
SetterDescriptions == {DescriptionText[1]}

ConvNext ==
    \/ \E u \in SetterUuids : SetUuid(u)
    \/ \E u \in SetterUrls : SetSchemaUrl(u)
    \/ \E u \in SetterUrls : SetSpecUrl(u)
    \/ \E n \in SetterNames : SetName(n)
    \/ \E d \in SetterDescriptions : SetDescription(d)
    \/ BuildConvention
    \/ \E rec \in ConventionRecords : DeserializeConvention(rec)
    \/ Id
    \/ IntoConventionId

ConvSpec == ConvInit /\ [][ConvNext]_vars

-----------------------------------------------------------------------------
(* Convention claims *)

\* The fields some setter call has set.
SetFields == {calls[i].field : i \in 1..Len(calls)}

\* The value of the last setter call for the field f.
LastSet(f) ==
    LET last == CHOOSE i \in 1..Len(calls) :
                    /\ calls[i].field = f
                    /\ \A j \in (i + 1)..Len(calls) : calls[j].field # f
    IN calls[last].v

IdentifierFields == {"uuid", "schema_url", "spec_url"}

\* C15: build() returns the missing-identifier error exactly when no setter call
\* set uuid, schema_url or spec_url; otherwise it returns a Convention, in which
\* every field a setter call set holds the value of the last such call and every
\* other field is None, whatever the order of the calls and whether or not name
\* and description were set.
C15_BuildNeedsIdentifier ==
    out.op = "ConventionBuilder::build" =>
        /\ ~out.ret.ok <=> SetFields \cap IdentifierFields = {}
        /\ ~out.ret.ok =>
              out.ret.err = "At least one of uuid, schema_url, or spec_url must be set"
        /\ out.ret.ok =>
              \A f \in AllFields :
                  out.ret.v[f] = IF f \in SetFields THEN Some(LastSet(f)) ELSE None

\* name was set, then spec_url, and build() returned a Convention without uuid.
C15_Witness ==
    /\ out.op = "ConventionBuilder::build"
    /\ Len(calls) = 2
    /\ calls[1].field = "name"
    /\ calls[2].field = "spec_url"
    /\ out.ret.ok
    /\ out.ret.v.uuid = None
    /\ out.ret.v.spec_url = Some(calls[2].v)

\* C16: for every Convention that build() or deserialization returned, id() and
\* ConventionId::from return the same identifier and neither reaches its
\* unreachable branch; what either returned is Uuid when uuid is set, else
\* SchemaUrl when schema_url is set, else SpecUrl.
C16_SamePreference ==
    (conv.some /\ conv.v.ok) =>
        LET c == conv.v.v IN
        /\ Convention_id(c) = ConventionId_from(c)
        /\ Convention_id(c) # Unreachable
        /\ ConventionId_from(c) # Unreachable
        /\ out.op \in {"Convention::id", "ConventionId::from"} =>
              /\ c.uuid.some => out.ret = IdUuid(c.uuid.v)
              /\ (~c.uuid.some /\ c.schema_url.some) =>
                    out.ret = IdSchemaUrl(c.schema_url.v)
              /\ (~c.uuid.some /\ ~c.schema_url.some) =>
                    c.spec_url.some /\ out.ret = IdSpecUrl(c.spec_url.v)

\* A record with a schema url and a spec url but no uuid was set up by the
\* builder, and the conversion returned the schema url.
C16_Witness ==
    /\ conv.some /\ conv.v.ok
    /\ ~conv.v.v.uuid.some
    /\ conv.v.v.schema_url.some
    /\ conv.v.v.spec_url.some
    /\ cb = None
    /\ out.op = "ConventionId::from"
    /\ out.ret = IdSchemaUrl(conv.v.v.schema_url.v)

-----------------------------------------------------------------------------
(* In-use identifier claims *)

\* The records of the zarr_conventions list of attrs, none when there is no list.
ListedRecords(attrs) ==
    IF ZarrConventions_KEY \in DOMAIN attrs
    THEN Range(attrs[ZarrConventions_KEY].items)
    ELSE {}

\* The record rec holds the field f with a value other than null.
HasField(rec, f) == f \in DOMAIN rec.map /\ rec.map[f] # Null

\* The record rec holds none of the three identifiers.
WithoutIdentifier(rec) ==
    ~HasField(rec, "uuid") /\ ~HasField(rec, "schema_url") /\ ~HasField(rec, "spec_url")

\* C17: a record of the list without uuid, schema_url and spec_url does not decode
\* as a Convention, and on a map whose list holds such a record both
\* ZarrConventions::from_attributes and the deserialization of AttributesParser
\* return an error, whatever the other records are.
C17_RecordWithoutIdentifierFails ==
    /\ \A rec \in ListedRecords(attributes) :
          WithoutIdentifier(rec) => ~Convention_deserialize(rec).ok
    /\ (\E rec \in ListedRecords(attributes) : WithoutIdentifier(rec)) =>
          /\ out.op = "ZarrConventions::from_attributes" => ~out.ret.ok
          /\ parser.some => ~parser.v.ok

\* A list of a full record and a record with a name only: the parser did not
\* deserialize and ZarrConventions::from_attributes returned an error.
C17_Witness ==
    /\ ZarrConventions_KEY \in DOMAIN attributes
    /\ Len(attributes[ZarrConventions_KEY].items) = 2
    /\ ~WithoutIdentifier(attributes[ZarrConventions_KEY].items[1])
    /\ WithoutIdentifier(attributes[ZarrConventions_KEY].items[2])
    /\ parser.some
    /\ ~parser.v.ok
    /\ out.op = "ZarrConventions::from_attributes"
    /\ ~out.ret.ok

\* The identifiers of the table whose text some record of attrs holds in field f.
ListedTexts(attrs, f, table) ==
    {i \in DOMAIN table :
        \E rec \in ListedRecords(attrs) : HasField(rec, f) /\ rec.map[f] = Str(table[i])}

\* C18: the three in-use sets of a parsed map are the uuids, the schema urls and
\* the spec urls of all the records of its list, and in_use::<T>() is true exactly
\* when T's uuid, T's schema_url or T's spec_url is in the set of its kind.
C18_InUseByAnyIdentifier ==
    Parsed =>
        LET zc == parser.v.v.zarr_conventions
            us == ListedTexts(attributes, "uuid", UuidText)
            ss == ListedTexts(attributes, "schema_url", SchemaUrlText)
            ps == ListedTexts(attributes, "spec_url", SpecUrlText)
        IN /\ zc.uuids = us
           /\ zc.schema_urls = ss
           /\ zc.spec_urls = ps
           /\ out.op = "in_use" =>
                 LET D == TypeNamed(out.T).DEFINITION IN
                 out.ret <=> (D.uuid \in us \/ D.schema_url \in ss \/ D.spec_url \in ps)

\* in_use::<CanBeEither>() is true on a list whose second record alone is of
\* CanBeEither and holds its spec url but neither its uuid nor its schema url.
C18_Witness ==
    /\ Parsed
    /\ out.op = "in_use"
    /\ out.T = "CanBeEither"
    /\ out.ret = TRUE
    /\ parser.v.v.zarr_conventions.uuids = {MustBeNested.DEFINITION.uuid}
    /\ parser.v.v.zarr_conventions.spec_urls =
          {MustBeNested.DEFINITION.spec_url, CanBeEither.DEFINITION.spec_url}
    /\ Len(attributes[ZarrConventions_KEY].items) = 2
    /\ HasField(attributes[ZarrConventions_KEY].items[1], "uuid")

-----------------------------------------------------------------------------
(* AttributesBuilder: attributes.rs *)

\* AttributesBuilder::default()
AttributesBuilder_default ==
    [convention_definitions |-> {}, attributes |-> <<>>,
     uuid |-> TRUE, schema_url |-> TRUE, spec_url |-> TRUE,
     name |-> TRUE, description |-> TRUE]

\* AttributesBuilder::add_convention
add_convention(b, T) ==
    [b EXCEPT !.convention_definitions = @ \cup {T.DEFINITION}]

\* add_nested declaring the convention before it encodes the value.
add_nested_declaring_first(b, T, V) ==
    LET r == to_attributes_nested(T, V, b.attributes)
        wrote == [b EXCEPT !.attributes = r.output]
    IN [ret |-> r.ret, builder |-> add_convention(wrote, T)]

\* AttributesBuilder::add_nested: the result and the builder as the call leaves it.
add_nested(b, T, V) ==
    LET r == to_attributes_nested(T, V, b.attributes)
        wrote == [b EXCEPT !.attributes = r.output]
    IN IF r.ret.ok THEN [ret |-> Ok(<<>>), builder |-> add_convention(wrote, T)]
       ELSE [ret |-> r.ret, builder |-> wrote]

\* add_prefixed without the call of add_convention.
add_prefixed_undeclared(b, T, V) ==
    LET r == to_attributes_prefixed(T, V, b.attributes)
    IN [ret |-> r.ret, builder |-> [b EXCEPT !.attributes = r.output]]

\* AttributesBuilder::add_prefixed
add_prefixed(b, T, V) ==
    LET r == to_attributes_prefixed(T, V, b.attributes)
        wrote == [b EXCEPT !.attributes = r.output]
    IN IF r.ret.ok THEN [ret |-> Ok(<<>>), builder |-> add_convention(wrote, T)]
       ELSE [ret |-> r.ret, builder |-> wrote]

\* AttributesBuilder::add_attribute, of a value that is a serde_json::Value
add_attribute(b, key, value) ==
    [ret |-> Ok(<<>>), builder |-> [b EXCEPT !.attributes = MapInsert(@, key, value)]]

\* The elements of a BTreeSet<ConventionDefinition> in ascending order.
RECURSIVE SortedDefinitions(_)
SortedDefinitions(S) ==
    IF S = {} THEN <<>>
    ELSE LET d == CHOOSE x \in S : \A y \in S \ {x} : DefLess(x, y)
         IN <<d>> \o SortedDefinitions(S \ {d})

\* #[derive(Serialize)] on Convention: the five fields, None as null.
Convention_serialize(c) ==
    Obj([uuid |-> IF c.uuid.some THEN Str(UuidText[c.uuid.v]) ELSE Null,
         schema_url |->
            IF c.schema_url.some THEN Str(SchemaUrlText[c.schema_url.v]) ELSE Null,
         spec_url |-> IF c.spec_url.some THEN Str(SpecUrlText[c.spec_url.v]) ELSE Null,
         name |-> IF c.name.some THEN Str(c.name.v) ELSE Null,
         description |-> IF c.description.some THEN Str(c.description.v) ELSE Null])

\* The ConventionBuilder of definition d with every field set.
SelectedBuilder_every_field(b, d) ==
    ConventionBuilder_description(
        ConventionBuilder_name(
            ConventionBuilder_spec_url(
                ConventionBuilder_schema_url(
                    ConventionBuilder_uuid(ConventionBuilder_default, d.uuid),
                    d.schema_url),
                d.spec_url),
            NameText[d.name]),
        DescriptionText[d.description])

\* build, lines 119-136: the ConventionBuilder of definition d under the selection.
SelectedBuilder(b, d) ==
    LET b0 == ConventionBuilder_default
        b1 == IF b.uuid THEN ConventionBuilder_uuid(b0, d.uuid) ELSE b0
        b2 == IF b.schema_url THEN ConventionBuilder_schema_url(b1, d.schema_url) ELSE b1
        b3 == IF b.spec_url THEN ConventionBuilder_spec_url(b2, d.spec_url) ELSE b2
        b4 == IF b.name THEN ConventionBuilder_name(b3, NameText[d.name]) ELSE b3
    IN IF b.description
       THEN ConventionBuilder_description(b4, DescriptionText[d.description])
       ELSE b4

\* expect(): the call panics.
Panic(msg) == [ok |-> FALSE, panic |-> msg]

SelectionError ==
    Err("At least one convention identifier (uuid, schema_url, spec_url) must be enabled")

\* build failing on an empty selection of identifiers even when no convention
\* was added.
AttributesBuilder_build_strict(b) ==
    IF ~b.uuid /\ ~b.schema_url /\ ~b.spec_url THEN SelectionError
    ELSE IF b.convention_definitions # {}
    THEN LET ds == SortedDefinitions(b.convention_definitions)
             cs == [i \in 1..Len(ds) |-> ConventionBuilder_build(SelectedBuilder(b, ds[i]))]
         IN Ok(Obj(MapInsert(b.attributes, ZarrConventions_KEY,
                             Arr([i \in 1..Len(ds) |-> Convention_serialize(cs[i].v)]))))
    ELSE Ok(Obj(b.attributes))

\* AttributesBuilder::build
AttributesBuilder_build(b) ==
    IF ~b.uuid /\ ~b.schema_url /\ ~b.spec_url /\ b.convention_definitions # {}
    THEN SelectionError
    ELSE IF b.convention_definitions # {}
    THEN LET ds == SortedDefinitions(b.convention_definitions)
             cs == [i \in 1..Len(ds) |-> ConventionBuilder_build(SelectedBuilder(b, ds[i]))]
         IN IF \E i \in 1..Len(cs) : ~cs[i].ok
            THEN Panic("convention definition should build")
            ELSE Ok(Obj(MapInsert(b.attributes, ZarrConventions_KEY,
                                  Arr([i \in 1..Len(ds) |-> Convention_serialize(cs[i].v)]))))
    ELSE Ok(Obj(b.attributes))

\* AttributesParser::get::<serde_json::Value>
AttributesParser_get(p, key) ==
    IF key \in DOMAIN p.fields THEN Ok(Some(p.fields[key])) ELSE Ok(None)

-----------------------------------------------------------------------------
(* The builder, and the parser on the map it built *)

\* The keys and values add_attribute is called with: the key of the example, the
\* reserved key, the nested key of CanBeEither and a key under its prefix.
FreeFormKeys == {"other_key", "zarr_conventions", "can_be_either", "can_be_either:foo"}
FreeFormValues == {Str("other_value")}

\* The convention types whose values are added: those of tests.rs, one that does
\* not serialize to an object and one that does not serialize.
BldTypes == Types \cup {ScalarValue, Unserializable}

\* The state after AttributesBuilder::default().
BldInit ==
    /\ RegInit
    /\ AttrIdle /\ EncIdle /\ ConvIdle
    /\ builder = Some(AttributesBuilder_default)
    /\ added = [n |-> 0, sel |-> AllFields,
                nested |-> <<>>, prefixed |-> <<>>, attrs |-> <<>>,
                failed |-> <<>>,
                built |-> None, ret |-> None]

\* A call of one of the selection setters of the builder.
Select(field, enable, b) ==
    /\ builder' = Some(b)
    /\ added' = [added EXCEPT !.sel = IF enable THEN @ \cup {field} ELSE @ \ {field}]
    /\ UNCHANGED <<regvars, attrvars, encoded, convvars>>

\* builder.uuid(enable)
BuilderUuid(enable) ==
    /\ builder.some
    /\ Select("uuid", enable, [builder.v EXCEPT !.uuid = enable])

\* builder.schema_url(enable)
BuilderSchemaUrl(enable) ==
    /\ builder.some
    /\ Select("schema_url", enable, [builder.v EXCEPT !.schema_url = enable])

\* builder.spec_url(enable)
BuilderSpecUrl(enable) ==
    /\ builder.some
    /\ Select("spec_url", enable, [builder.v EXCEPT !.spec_url = enable])

\* builder.name(enable)
BuilderName(enable) ==
    /\ builder.some
    /\ Select("name", enable, [builder.v EXCEPT !.name = enable])

\* builder.description(enable)
BuilderDescription(enable) ==
    /\ builder.some
    /\ Select("description", enable, [builder.v EXCEPT !.description = enable])

\* The count of failed add calls per type, with one more for T.
FailedOnceMore(f, T) ==
    (T.name :> (IF T.name \in DOMAIN f THEN f[T.name] + 1 ELSE 1)) @@ f

\* builder.add_nested(&V)
AddNested(T, V) ==
    /\ builder.some
    /\ T.nested
    /\ added.n < MaxAdds
    /\ LET r == add_nested(builder.v, T, V)
       IN /\ builder' = Some(r.builder)
          /\ added' = [added EXCEPT !.n = @ + 1,
                                    !.nested = IF r.ret.ok THEN (T.name :> V) @@ @ ELSE @,
                                    !.failed = IF r.ret.ok THEN @ ELSE FailedOnceMore(@, T)]
    /\ UNCHANGED <<regvars, attrvars, encoded, convvars>>

\* builder.add_prefixed(&V)
AddPrefixed(T, V) ==
    /\ builder.some
    /\ T.prefixed
    /\ added.n < MaxAdds
    /\ LET r == add_prefixed(builder.v, T, V)
       IN /\ builder' = Some(r.builder)
          /\ added' = [added EXCEPT !.n = @ + 1,
                                    !.prefixed = IF r.ret.ok THEN (T.name :> V) @@ @ ELSE @,
                                    !.failed = IF r.ret.ok THEN @ ELSE FailedOnceMore(@, T)]
    /\ UNCHANGED <<regvars, attrvars, encoded, convvars>>

\* builder.add_attribute(key, value)
AddAttribute(key, value) ==
    /\ builder.some
    /\ added.n < MaxAdds
    /\ builder' = Some(add_attribute(builder.v, key, value).builder)
    /\ added' = [added EXCEPT !.n = @ + 1, !.attrs = (key :> value) @@ @]
    /\ UNCHANGED <<regvars, attrvars, encoded, convvars>>

\* let val = builder.build(): the builder is moved into the call, and the map
\* returned is the one the parser is given.
Build ==
    /\ builder.some
    /\ LET ret == AttributesBuilder_build(builder.v)
       IN /\ added' = [added EXCEPT !.built = Some(builder.v), !.ret = Some(ret)]
          /\ attributes' = IF ret.ok THEN ret.v.map ELSE attributes
          /\ out' = [op |-> "AttributesBuilder::build", ret |-> ret]
    /\ builder' = None
    /\ parser' = None
    /\ handed' = None
    /\ UNCHANGED <<regvars, encoded, convvars>>

\* serde_json::from_value::<AttributesParser>(val)
DeserializeBuilt ==
    /\ added.built.some
    /\ added.ret.v.ok
    /\ DeserializeParser

\* parser.get::<serde_json::Value>(key)
GetAttribute(key) ==
    /\ Parsed
    /\ handed' = None
    /\ out' = [op |-> "get", key |-> key, ret |-> AttributesParser_get(parser.v.v, key)]
    /\ UNCHANGED <<attributes, parser>>
    /\ UNCHANGED <<regvars, bldvars, encoded, convvars>>

BldNext ==
    \/ \E e \in BOOLEAN : BuilderUuid(e)
    \/ \E e \in BOOLEAN : BuilderSchemaUrl(e)
    \/ \E e \in BOOLEAN : BuilderSpecUrl(e)
    \/ \E e \in BOOLEAN : BuilderName(e)
    \/ \E e \in BOOLEAN : BuilderDescription(e)
    \/ \E T \in BldTypes : \E V \in Values(T) : AddNested(T, V)
    \/ \E T \in BldTypes : \E V \in Values(T) : AddPrefixed(T, V)
    \/ \E k \in FreeFormKeys : \E v \in FreeFormValues : AddAttribute(k, v)
    \/ Build
    \/ DeserializeBuilt
    \/ \E T \in Types : InUse(T)
    \/ \E T \in Types : ParseNested(T)
    \/ \E T \in Types : ParsePrefixed(T)
    \/ \E T \in Types : Parse(T)
    \/ \E k \in FreeFormKeys : GetAttribute(k)

BldSpec == BldInit /\ [][BldNext]_vars

-----------------------------------------------------------------------------
(* Builder claims *)

\* The names of the convention types a value of which was added.
AddedTypes == DOMAIN added.nested \cup DOMAIN added.prefixed

\* The value of the type named n that was added, when it was added in one form.
AddedInOneForm(n) ==
    (n \in DOMAIN added.nested) # (n \in DOMAIN added.prefixed)

TheAdded(n) ==
    IF n \in DOMAIN added.nested THEN added.nested[n] ELSE added.prefixed[n]

\* The map that build() returned was handed to the parser, every convention added
\* is in use, each decodes to the value last added in its form (and, for a type
\* added in one form, the combined decoding returns that value), and get returns
\* every free-form attribute as last added.
RoundTrip ==
    /\ parser.v.ok
    /\ \A n \in AddedTypes : in_use(TypeNamed(n), parser.v.v.zarr_conventions)
    /\ (out.op = "in_use" /\ out.T \in AddedTypes) => out.ret = TRUE
    /\ (out.op = "parse_nested" /\ out.T \in DOMAIN added.nested) =>
          out.ret = Ok(Some(added.nested[out.T]))
    /\ (out.op = "parse_prefixed" /\ out.T \in DOMAIN added.prefixed) =>
          out.ret = Ok(Some(added.prefixed[out.T]))
    /\ (out.op = "parse" /\ out.T \in AddedTypes /\ AddedInOneForm(out.T)) =>
          out.ret = Ok(Some(TheAdded(out.T)))
    /\ (out.op = "get" /\ out.key \in DOMAIN added.attrs) =>
          out.ret = Ok(Some(added.attrs[out.key]))

\* build() was called with an identifier kind selected and the parser was given
\* the map it returned.
BuiltAndParsed ==
    /\ added.built.some
    /\ added.sel \cap IdentifierFields # {}
    /\ parser.some

\* C12 (as claimed): whatever convention values and free-form attributes were
\* added, with a selection that keeps an identifier kind, the parser of the built
\* map reports every added convention in use, decodes each to the value added and
\* returns every free-form attribute added.
C12_BuilderRoundTrip ==
    BuiltAndParsed => RoundTrip

\* No free-form attribute was added under the reserved key, under the nested key
\* of an added convention or under a key that starts with its prefix.
NoReservedKey ==
    \A k \in DOMAIN added.attrs :
        /\ k # ZarrConventions_KEY
        /\ \A n \in AddedTypes : ~ReadBy(TypeNamed(n), k)

\* C12 (amended): the same, when no free-form attribute was added under
\* "zarr_conventions", under the KEY of an added convention or under a key that
\* starts with the PREFIX of an added convention.
C12_RoundTripWithoutReservedKeys ==
    (BuiltAndParsed /\ NoReservedKey) => RoundTrip

\* With the selection {uuid}: MustBeNested added nested, CanBeEither prefixed and
\* the attribute other_key; the combined decoding returned the CanBeEither added.
C12_Witness ==
    /\ BuiltAndParsed
    /\ NoReservedKey
    /\ added.sel = {"uuid"}
    /\ DOMAIN added.nested = {"MustBeNested"}
    /\ DOMAIN added.prefixed = {"CanBeEither"}
    /\ DOMAIN added.attrs = {"other_key"}
    /\ out.op = "parse"
    /\ out.T = "CanBeEither"
    /\ out.ret = Ok(Some(added.prefixed["CanBeEither"]))

BldTypeNamed(n) == CHOOSE T \in BldTypes : T.name = n

\* The types an add of which failed and no add of which succeeded.
FailedOnly == DOMAIN added.failed \ AddedTypes

\* The map m holds a key of the convention type T that no add_attribute call wrote.
HoldsKeyOf(m, T) ==
    \E k \in DOMAIN m \ DOMAIN added.attrs :
        \/ T.nested /\ k = T.KEY
        \/ T.prefixed /\ StartsWith(k, T.PREFIX)

\* The zarr_conventions list of the map m holds a record with an identifier of T.
Lists(m, T) ==
    /\ ZarrConventions_KEY \in DOMAIN m
    /\ m[ZarrConventions_KEY].tag = "arr"
    /\ \E i \in 1..Len(m[ZarrConventions_KEY].items) :
          LET rec == m[ZarrConventions_KEY].items[i].map IN
          \/ rec["uuid"] = Str(UuidText[T.DEFINITION.uuid])
          \/ rec["schema_url"] = Str(SchemaUrlText[T.DEFINITION.schema_url])
          \/ rec["spec_url"] = Str(SpecUrlText[T.DEFINITION.spec_url])

\* A type whose adds all failed is not declared in the builder, and neither the
\* builder's map nor the map build() returned holds a key of it or lists it.
FailedTypesLeftOut ==
    \A n \in FailedOnly :
        LET T == BldTypeNamed(n) IN
        /\ builder.some =>
              /\ T.DEFINITION \notin builder.v.convention_definitions
              /\ ~HoldsKeyOf(builder.v.attributes, T)
        /\ (added.built.some /\ added.ret.v.ok) =>
              /\ ~Lists(added.ret.v.v.map, T)
              /\ ~HoldsKeyOf(added.ret.v.v.map, T)

\* C30: an add_nested or add_prefixed call that fails, on a value that does not
\* serialize or, for add_prefixed, does not serialize to an object, leaves the
\* builder as it was; and a convention type whose adds all failed is not declared,
\* none of its keys is written, and the map a later build() returns neither lists
\* it in zarr_conventions nor holds any of its keys.
C30_FailedAddLeavesBuilder ==
    [][/\ (builder.some /\ builder'.some /\ added'.failed # added.failed) =>
             builder' = builder
       /\ FailedTypesLeftOut']_vars

\* MustBeNested was added, add_prefixed of a number and an add of a value that
\* does not serialize failed, and build() returned a map that lists one
\* convention and holds its key alone.
C30_Witness ==
    /\ added.built.some
    /\ added.ret.v.ok
    /\ DOMAIN added.failed = {"ScalarValue", "Unserializable"}
    /\ AddedTypes = {"MustBeNested"}
    /\ ZarrConventions_KEY \in DOMAIN attributes
    /\ Len(attributes[ZarrConventions_KEY].items) = 1
    /\ DOMAIN attributes = {ZarrConventions_KEY, "must_be_nested"}

\* The identity record of definition d under the selection sel: the five fields,
\* a selected one holding its text and any other null.
IdentityRecord(d, sel) ==
    Obj([f \in AllFields |->
            IF f \in sel THEN ConventionRecord(d, AllFields).map[f] ELSE Null])

\* The map build() returned.
BuiltMap == added.ret.v.v.map

\* The definitions of the convention types a value of which was added.
AddedDefinitions == {TypeNamed(n).DEFINITION : n \in AddedTypes}

\* zarr_conventions holds one identity record for each definition added, in the
\* order of the definitions, each with the selected fields; with no convention
\* added, build() generated no zarr_conventions key.
ListsWhatWasAdded ==
    /\ AddedTypes # {} =>
          /\ ZarrConventions_KEY \in DOMAIN BuiltMap
          /\ BuiltMap[ZarrConventions_KEY].tag = "arr"
          /\ LET lst == BuiltMap[ZarrConventions_KEY].items IN
             /\ Len(lst) = Cardinality(AddedDefinitions)
             /\ \A d \in AddedDefinitions :
                   \E i \in 1..Len(lst) : lst[i] = IdentityRecord(d, added.sel)
             /\ \A i \in 1..Len(lst) : \A j \in 1..Len(lst) :
                   i < j =>
                      \E a \in AddedDefinitions : \E b \in AddedDefinitions :
                         /\ lst[i] = IdentityRecord(a, added.sel)
                         /\ lst[j] = IdentityRecord(b, added.sel)
                         /\ DefLess(a, b)
    /\ AddedTypes = {} =>
          /\ DOMAIN BuiltMap = DOMAIN added.attrs
          /\ \A k \in DOMAIN BuiltMap : BuiltMap[k] = added.attrs[k]

\* The built map holds the free-form attribute added under k.
HoldsAttribute(k) == k \in DOMAIN BuiltMap /\ BuiltMap[k] = added.attrs[k]

\* C24 (as claimed): the map build() returns lists one identity record per
\* definition added, in the definitions' order and with the selected fields, or
\* has no generated zarr_conventions key when no convention was added, and holds
\* every free-form attribute added.
C24_BuildRecords ==
    (added.built.some /\ added.ret.v.ok) =>
        /\ ListsWhatWasAdded
        /\ \A k \in DOMAIN added.attrs : HoldsAttribute(k)

\* The key k is one that an added convention or, with a convention added, the
\* zarr_conventions list is written under.
WrittenOver(k) ==
    \/ AddedTypes # {} /\ k = ZarrConventions_KEY
    \/ \E n \in AddedTypes : ReadBy(TypeNamed(n), k)

\* C24 (amended): the same, for the free-form attributes whose key is not the KEY
\* of an added convention, does not start with the PREFIX of an added convention
\* and, when a convention was added, is not "zarr_conventions".
C24_BuildRecordsAndOtherAttributes ==
    (added.built.some /\ added.ret.v.ok) =>
        /\ ListsWhatWasAdded
        /\ \A k \in DOMAIN added.attrs : ~WrittenOver(k) => HoldsAttribute(k)

\* With schema_url and description selected: MustBeNested and CanBeEither and the
\* attribute other_key added; the list holds the record of MustBeNested, whose
\* uuid is the lesser, then that of CanBeEither.
C24_Witness ==
    /\ added.built.some
    /\ added.ret.v.ok
    /\ added.sel = {"schema_url", "description"}
    /\ AddedTypes = {"MustBeNested", "CanBeEither"}
    /\ DOMAIN added.attrs = {"other_key"}
    /\ BuiltMap[ZarrConventions_KEY].items =
          <<IdentityRecord(MustBeNested.DEFINITION, added.sel),
            IdentityRecord(CanBeEither.DEFINITION, added.sel)>>
    /\ BuiltMap["other_key"] = Str("other_value")

=============================================================================
